---- MODULE Spec2Model ----
(***************************************************************************)
(* Solar farm estimator (src/app.py, src/APP_Pro.py).                      *)
(*                                                                         *)
(* The scripts compute with binary floating point; the model computes with *)
(* exact fixed-point integers:                                             *)
(*   lengths                       centimetres (0.01 m)                    *)
(*   min_spacing, max_spacing and frange's cursor   millimetres            *)
(*   areas                         square centimetres                      *)
(*   lat, solar_angle              hundredths of a degree                  *)
(*   panel_capacity_kw, pr         hundredths                              *)
(*   shading loss                  units of 0.005 (0.12 = 24, 0.015 = 3)   *)
(*   irradiance                    kWh/kWp/year                            *)
(*   energies                      [kwh, rem]: kwh + rem/den kWh           *)
(* Inputs are chosen away from the ties that binary rounding decides       *)
(* (a spacing ending in 5 mm, a sweep cursor equal to the stop value).     *)
(***************************************************************************)
EXTENDS Integers, Sequences, FiniteSets, TLC

VARIABLES
    pc,
    \* inputs, lines 55-72
    panels_per_mount, mounts_per_row, panel_capacity_kw, user_defined_panels,
    lat, panel_tilt, panel_length, pr,
    land_length, land_width, panel_width, panel_gap,
    \* usable land settings, lines 118-127
    use_percentage, use_manual_area, effective_land_area,
    \* spacing range, lines 132-134
    min_spacing, max_spacing, row_spacings,
    \* irradiance lookup, lines 76-84 and 136
    pvgis_response, irradiance,
    \* solar geometry, lines 141-142
    solar_angle, shadow_len,
    \* sweep loop, lines 144-162; i is the position of the loop in row_spacings
    \* (APP_Pro.py line 281 binds the name to the index of a polygon point)
    i, spacing, rows_possible, panels_per_row, gross_panels, total_area_panels,
    total_panels, shading_loss, yield_per_panel, total_energy, spacing_results,
    \* selected-spacing summary, lines 168-184
    selected_spacing, rows_possible_exact, panels_per_row_exact,
    total_panels_exact, shading_selected, yield_per_panel_exact,
    total_energy_exact, system_capacity_kw, gcr_selected,
    \* layout estimator, lines 221-232
    layout_land_length, layout_land_width, layout_panel_width,
    layout_panel_gap, layout_row_spacing,
    panels_per_row_layout, rows_possible_layout, total_panels_layout,
    \* polygon land input, APP_Pro.py lines 277-303
    x_coords, y_coords, original_polygon,
    \* usable polygon, APP_Pro.py lines 311-350
    use_percentage_poly, use_manual_area_poly, effective_land_area_poly,
    usable_polygon, poly_warning, land_usage_percent_poly, offset,
    \* panel layout inside the usable polygon, APP_Pro.py lines 372-403
    panel_height, row_spacing, possible_rows, total_panels_possible,
    row, col, panel_count, placed,
    \* polygon output summary, APP_Pro.py lines 415-421
    performance_ratio, estimated_energy_per_panel, total_capacity,
    \* the argument and the results of the helpers validate_polygon and
    \* polygon_area, APP_Pro.py lines 253-263
    coords, validate_polygon_result, polygon_area_result

inputs == <<panels_per_mount, mounts_per_row, panel_capacity_kw,
            user_defined_panels, lat, panel_tilt, panel_length, pr,
            land_length, land_width, panel_width, panel_gap>>
usableVars == <<use_percentage, use_manual_area, effective_land_area>>
rangeVars == <<min_spacing, max_spacing, row_spacings>>
fetchVars == <<pvgis_response, irradiance>>
solarVars == <<solar_angle, shadow_len>>
sweepVars == <<i, spacing, rows_possible, panels_per_row, gross_panels,
               total_area_panels, total_panels, shading_loss, yield_per_panel,
               total_energy, spacing_results>>
summaryVars == <<selected_spacing, rows_possible_exact, panels_per_row_exact,
                 total_panels_exact, shading_selected, yield_per_panel_exact,
                 total_energy_exact, system_capacity_kw, gcr_selected>>
layoutVars == <<layout_land_length, layout_land_width, layout_panel_width,
                layout_panel_gap, layout_row_spacing, panels_per_row_layout,
                rows_possible_layout, total_panels_layout>>
geomVars == <<coords, validate_polygon_result, polygon_area_result>>
polyVars == <<x_coords, y_coords, original_polygon, use_percentage_poly,
              use_manual_area_poly, effective_land_area_poly, usable_polygon,
              poly_warning, land_usage_percent_poly, offset,
              geomVars, panel_height, row_spacing, possible_rows,
              total_panels_possible, row, col, panel_count, placed,
              performance_ratio, estimated_energy_per_panel, total_capacity>>
vars == <<pc, inputs, usableVars, rangeVars, fetchVars, solarVars, sweepVars,
          summaryVars, layoutVars, polyVars>>

(***************************************************************************)
(* Input values.                                                           *)
(***************************************************************************)
\* (land_length, land_width) in cm: the widgets of lines 69-70 start from the
\* integers 230 and 200 and so hold whole metres, whatever their format
LandValues == {<<23000, 20000>>, <<1100, 700>>}
\* (panel_width, panel_gap) in cm
PanelValues == {<<110, 20>>, <<280, 0>>}
\* (mounts_per_row, panels_per_mount)
TableValues == {<<5, 10>>, <<153, 1>>}
OverrideValues == {0, 4284, -5}
CapacityValues == {55, 40}
LatValues == {2828, -1000, 12000}
\* usable land settings: the two checkboxes and the number entered
\* (a percentage 50..100, or an area in square metres)
UsableValues == {[use_percentage |-> TRUE, use_manual_area |-> FALSE, amount |-> 90],
                 [use_percentage |-> TRUE, use_manual_area |-> FALSE, amount |-> 97],
                 [use_percentage |-> TRUE, use_manual_area |-> TRUE, amount |-> 100],
                 [use_percentage |-> FALSE, use_manual_area |-> TRUE, amount |-> 60],
                 [use_percentage |-> FALSE, use_manual_area |-> FALSE, amount |-> 0]}
\* (min_spacing, max_spacing) in mm; min >= 1.0 and max >= min + 0.5 (widget limits)
RangeValues == {<<1000, 4000>>, <<7500, 8000>>, <<4006, 4572>>, <<1000, 1560>>}
\* selected spacings in cm; the widget keeps min_spacing <= selected <= max_spacing
SelectedValues == {100, 150, 400, 403, 457, 750, 800}
\* what the PVGIS request does
ResponseValues == {[kind |-> "ok", E_y |-> 2000], [kind |-> "ok", E_y |-> 1387],
                   [kind |-> "network_failure", E_y |-> 0],
                   [kind |-> "timeout", E_y |-> 0],
                   [kind |-> "no_E_y_field", E_y |-> 0]}
\* layout estimator inputs: length, width, panel width, gap, row spacing (cm)
LayoutValues == {<<23000, 20000, 110, 20, 800>>, <<1050, 730, 100, 50, 300>>,
                 <<23000, 20000, 110, 20, 0>>}

(***************************************************************************)
(* Exact arithmetic standing for the scripts' float products and quotients *)
(***************************************************************************)
\* floor(a * r / c) and the remainder, for a >= 0 and 0 <= r < c, by doubling
RECURSIVE MulMod(_, _, _)
MulMod(a, r, c) ==
    IF a = 0 THEN [q |-> 0, r |-> 0]
    ELSE LET h == MulMod(a \div 2, r, c)
             t == 2 * h.r + (a % 2) * r
         IN [q |-> 2 * h.q + t \div c, r |-> t % c]

\* a * b / c as a whole part and a remainder over c, for a, b >= 0 and c > 0
MulDiv(a, b, c) ==
    LET m == MulMod(a, b % c, c)
    IN [q |-> a * (b \div c) + m.q, r |-> m.r]

\* the greatest common divisor of a >= 0 and b >= 0
RECURSIVE Gcd(_, _)
Gcd(a, b) == IF b = 0 THEN a ELSE Gcd(b, a % b)

\* the least common multiple of a > 0 and b > 0
Lcm(a, b) == (a \div Gcd(a, b)) * b

\* the fraction n / d (d # 0) in lowest terms with a positive denominator
Frac(n, d) ==
    LET g == Gcd(IF n < 0 THEN 0 - n ELSE n, IF d < 0 THEN 0 - d ELSE d)
    IN IF d < 0 THEN [num |-> (0 - n) \div g, den |-> (0 - d) \div g]
       ELSE [num |-> n \div g, den |-> d \div g]

\* the product of two fractions in lowest terms, in lowest terms
FracMul(a, b) ==
    LET g1 == Gcd(IF a.num < 0 THEN 0 - a.num ELSE a.num, b.den)
        g2 == Gcd(IF b.num < 0 THEN 0 - b.num ELSE b.num, a.den)
    IN [num |-> (a.num \div g1) * (b.num \div g2),
        den |-> (a.den \div g2) * (b.den \div g1)]

\* (a + b) / 2 for two fractions
FracMid(a, b) == Frac(a.num * b.den + b.num * a.den, 2 * a.den * b.den)

\* Whole numbers of any size: a magnitude is a sequence of digits in base
\* 10000, lowest digit first, whose highest digit is not 0 (0 is <<>>); a wide
\* number is a magnitude and a sign
Base == 100 * 100

RECURSIVE BigOf(_)
BigOf(n) == IF n = 0 THEN <<>> ELSE <<n % Base>> \o BigOf(n \div Base)

RECURSIVE BigTrim(_)
BigTrim(a) ==
    IF a = <<>> THEN <<>>
    ELSE IF a[Len(a)] = 0 THEN BigTrim(SubSeq(a, 1, Len(a) - 1)) ELSE a

RECURSIVE BigAdd(_, _, _)
BigAdd(a, b, carry) ==
    IF a = <<>> /\ b = <<>> THEN (IF carry = 0 THEN <<>> ELSE <<carry>>)
    ELSE LET x == (IF a = <<>> THEN 0 ELSE Head(a))
                  + (IF b = <<>> THEN 0 ELSE Head(b)) + carry
         IN <<x % Base>> \o BigAdd(IF a = <<>> THEN <<>> ELSE Tail(a),
                                   IF b = <<>> THEN <<>> ELSE Tail(b), x \div Base)

\* a - b - borrow digit by digit, for a >= b + borrow
RECURSIVE BigSub(_, _, _)
BigSub(a, b, borrow) ==
    IF a = <<>> THEN <<>>
    ELSE LET x == Head(a) - (IF b = <<>> THEN 0 ELSE Head(b)) - borrow
         IN <<IF x < 0 THEN x + Base ELSE x>>
            \o BigSub(Tail(a), IF b = <<>> THEN <<>> ELSE Tail(b),
                      IF x < 0 THEN 1 ELSE 0)

\* -1, 0 or 1 as a is under, equal to or over b, from digit k down
RECURSIVE BigCmpFrom(_, _, _)
BigCmpFrom(a, b, k) ==
    IF k = 0 THEN 0
    ELSE IF a[k] < b[k] THEN -1
    ELSE IF a[k] > b[k] THEN 1
    ELSE BigCmpFrom(a, b, k - 1)

BigCmp(a, b) ==
    IF Len(a) < Len(b) THEN -1
    ELSE IF Len(a) > Len(b) THEN 1
    ELSE BigCmpFrom(a, b, Len(a))

\* a times the digit d, plus carry
RECURSIVE BigMulDigit(_, _, _)
BigMulDigit(a, d, carry) ==
    IF a = <<>> THEN (IF carry = 0 THEN <<>> ELSE <<carry>>)
    ELSE LET x == Head(a) * d + carry
         IN <<x % Base>> \o BigMulDigit(Tail(a), d, x \div Base)

RECURSIVE BigMul(_, _)
BigMul(a, b) ==
    IF a = <<>> \/ b = <<>> THEN <<>>
    ELSE LET rest == BigMul(a, Tail(b))
         IN BigAdd(BigTrim(BigMulDigit(a, Head(b), 0)),
                   IF rest = <<>> THEN <<>> ELSE <<0>> \o rest, 0)

WOf(n) == [neg |-> n < 0, mag |-> BigOf(IF n < 0 THEN 0 - n ELSE n)]
WSign(a) == IF a.mag = <<>> THEN 0 ELSE IF a.neg THEN -1 ELSE 1
WNeg(a) == [neg |-> a.mag # <<>> /\ ~a.neg, mag |-> a.mag]
WAbs(a) == [neg |-> FALSE, mag |-> a.mag]
WMul(a, b) ==
    LET m == BigMul(a.mag, b.mag)
    IN [neg |-> m # <<>> /\ a.neg # b.neg, mag |-> m]
WAdd(a, b) ==
    IF a.neg = b.neg THEN [neg |-> a.neg, mag |-> BigAdd(a.mag, b.mag, 0)]
    ELSE LET c == BigCmp(a.mag, b.mag)
         IN IF c = 0 THEN [neg |-> FALSE, mag |-> <<>>]
            ELSE IF c > 0 THEN [neg |-> a.neg, mag |-> BigTrim(BigSub(a.mag, b.mag, 0))]
            ELSE [neg |-> b.neg, mag |-> BigTrim(BigSub(b.mag, a.mag, 0))]
WSub(a, b) == WAdd(a, WNeg(b))
WLess(a, b) == WSign(WSub(a, b)) < 0

\* a quotient of two wide numbers, the divisor positive: a < b, |a - b|, a * n
QLess(a, b) == WLess(WMul(a.num, b.den), WMul(b.num, a.den))
QAbsDiff(a, b) ==
    [num |-> WAbs(WSub(WMul(a.num, b.den), WMul(b.num, a.den))),
     den |-> WMul(a.den, b.den)]
QTimes(a, n) == [num |-> WMul(a.num, WOf(n)), den |-> a.den]

\* denominators of the energy values: pr/100 * (1 - loss)/200, and that * kW/100
SweepDen == 100 * 200
ExactDen == 100 * 100 * 200

None == <<>>

(***************************************************************************)
(* Helper functions, lines 76-111                                          *)
(***************************************************************************)
\* a lookup that falls back to a typical yield when the request fails
get_irradiance_or_default(response) ==
    IF response.kind = "ok" THEN <<response.E_y>> ELSE <<2000>>

\* get_irradiance_from_pvgis: any exception gives None
get_irradiance_from_pvgis(response) ==
    IF response.kind = "ok" THEN <<response.E_y>> ELSE None

critical_solar_angle(lt) == 9000 - lt + 2345

\* sin(tilt) * 10^6 and 10^6 / tan(theta), rounded, for the angles of the inputs
SinE6 == [t \in {25} |-> 422618]
CotE6 == [th \in {8517, 12345, -655} |->
             CASE th = 8517 -> 84500 [] th = 12345 -> -660631 [] th = -655 -> -8709308]

\* shadow length in micrometres, to the six digits of the tables;
\* effective_height is cm * 10^-4 = micrometres
shadow_length(tilt, panel_len, theta) ==
    LET effective_height == (panel_len * SinE6[tilt]) \div 100
        cot == CotE6[theta]
    IN IF cot >= 0 THEN MulDiv(effective_height, cot, 1000000).q
       ELSE 0 - MulDiv(effective_height, 0 - cot, 1000000).q

\* the pairs (width, sp) in cm, among those drawn here, whose quotient equals
\* a threshold and is rounded by the binary division to just under it:
\* 0.16 / 0.4 is 0.39999999999999997
GcrRoundedDown == {<<16, 40>>}

\* line 94 with one comparison of lines 95-103: gcr = width / sp compared with
\* tenths/10 (width and sp in cm, sp > 0)
GcrAtLeast(width, sp, tenths) ==
    \/ 10 * width > tenths * sp
    \/ 10 * width = tenths * sp /\ <<width, sp>> \notin GcrRoundedDown

\* the bands with exclusive lower thresholds
ShadingBandStrict(width, sp) ==
    IF 10 * width > 7 * sp THEN 24
    ELSE IF 10 * width > 6 * sp THEN 16
    ELSE IF 10 * width > 5 * sp THEN 10
    ELSE IF 10 * width > 4 * sp THEN 6
    ELSE IF 10 * width > 3 * sp THEN 3
    ELSE 2

\* lines 95-106: the if/elif chain over gcr
ShadingBand(width, sp) ==
    IF GcrAtLeast(width, sp, 7) THEN 24
    ELSE IF GcrAtLeast(width, sp, 6) THEN 16
    ELSE IF GcrAtLeast(width, sp, 5) THEN 10
    ELSE IF GcrAtLeast(width, sp, 4) THEN 6
    ELSE IF GcrAtLeast(width, sp, 3) THEN 3
    ELSE 2

\* lines 93-94: gcr is taken from the global panel_width; shadow is not used
estimate_shading_loss(sp, shadow) == ShadingBand(panel_width, sp)

\* round(start, 2): millimetres to the nearest centimetre
Round2(mm) == (mm + 5) \div 10

\* the values the generator yields, collected
RECURSIVE frange(_, _, _)
frange(start, stop, step) ==
    IF start <= stop THEN <<Round2(start)>> \o frange(start + step, stop, step)
    ELSE <<>>

(***************************************************************************)
(* The script, top to bottom                                               *)
(***************************************************************************)
\* the names the script has not bound yet; none is read before it is bound
NotYetBound ==
    /\ use_percentage = FALSE /\ use_manual_area = FALSE /\ effective_land_area = 0
    /\ min_spacing = 0 /\ max_spacing = 0 /\ row_spacings = <<>>
    /\ pvgis_response = [kind |-> "not_sent", E_y |-> 0] /\ irradiance = None
    /\ solar_angle = 0 /\ shadow_len = 0
    /\ i = 0 /\ rows_possible = 0 /\ panels_per_row = 0
    /\ gross_panels = 0 /\ total_area_panels = 0 /\ total_panels = 0
    /\ yield_per_panel = 0
    /\ total_energy = [kwh |-> 0, rem |-> 0] /\ spacing_results = <<>>
    /\ selected_spacing = 0 /\ rows_possible_exact = 0 /\ panels_per_row_exact = 0
    /\ total_panels_exact = 0 /\ shading_selected = 0 /\ yield_per_panel_exact = 0
    /\ total_energy_exact = [kwh |-> 0, rem |-> 0] /\ system_capacity_kw = 0
    /\ gcr_selected = None
    /\ layout_land_length = 0 /\ layout_land_width = 0 /\ layout_panel_width = 0
    /\ layout_panel_gap = 0 /\ layout_row_spacing = 0
    /\ panels_per_row_layout = 0 /\ rows_possible_layout = 0
    /\ total_panels_layout = 0
    /\ x_coords = <<>> /\ y_coords = <<>> /\ original_polygon = <<>>
    /\ use_percentage_poly = FALSE /\ use_manual_area_poly = FALSE
    /\ effective_land_area_poly = 0 /\ usable_polygon = <<>> /\ poly_warning = FALSE
    /\ land_usage_percent_poly = 0 /\ offset = 0
    /\ row_spacing = 0 /\ possible_rows = 0 /\ total_panels_possible = 0
    /\ row = 0 /\ col = 0 /\ panel_count = 0 /\ placed = <<>>
    /\ performance_ratio = 0 /\ estimated_energy_per_panel = 0 /\ total_capacity = 0

\* the script never calls validate_polygon or polygon_area
HelpersNotCalled ==
    coords = <<>> /\ validate_polygon_result = FALSE /\ polygon_area_result = 0

\* lines 55-72: the widgets' values
Init ==
    /\ pc = "usable"
    /\ \E t \in TableValues : mounts_per_row = t[1] /\ panels_per_mount = t[2]
    /\ panel_capacity_kw \in CapacityValues
    /\ user_defined_panels \in OverrideValues
    /\ lat \in LatValues
    /\ panel_tilt = 25
    /\ panel_length = 200
    /\ pr = 82
    /\ panel_height = 150
    /\ \E l \in LandValues : land_length = l[1] /\ land_width = l[2]
    /\ \E p \in PanelValues : panel_width = p[1] /\ panel_gap = p[2]
    /\ spacing = 0 /\ shading_loss = 0
    /\ NotYetBound /\ HelpersNotCalled

\* lines 121-127; areas in cm^2, a manual area is entered in whole m^2
EffectiveLandArea(usePct, useManual, amount) ==
    IF usePct THEN MulDiv(land_length * land_width, amount, 100).q
    ELSE IF useManual THEN amount * 10000
    ELSE land_length * land_width

UsableLandSettings(values) ==
    /\ pc = "usable"
    /\ \E u \in values :
          /\ use_percentage' = u.use_percentage
          /\ use_manual_area' = u.use_manual_area
          /\ effective_land_area' =
                EffectiveLandArea(u.use_percentage, u.use_manual_area, u.amount)
    /\ pc' = "range"
    /\ UNCHANGED <<inputs, rangeVars, fetchVars, solarVars, sweepVars,
                   summaryVars, layoutVars,
                   polyVars>>

\* a sweep that accepts half a step beyond max_spacing
RowSpacingsHalfStep(mn, mx) == frange(mn, mx + 50, 100)

\* line 134: frange(min_spacing, max_spacing + 0.01, 0.1), each value rounded
RowSpacings(mn, mx) == frange(mn, mx + 10, 100)

RowSpacingRange(values) ==
    /\ pc = "range"
    /\ \E r \in values :
          /\ min_spacing' = r[1]
          /\ max_spacing' = r[2]
          /\ row_spacings' = RowSpacings(r[1], r[2])
    /\ pc' = "fetch"
    /\ UNCHANGED <<inputs, usableVars, fetchVars, solarVars, sweepVars,
                   summaryVars, layoutVars,
                   polyVars>>

\* line 136
FetchIrradiance(values) ==
    /\ pc = "fetch"
    /\ \E resp \in values :
          /\ pvgis_response' = resp
          /\ irradiance' = get_irradiance_from_pvgis(resp)
    /\ pc' = "guard"
    /\ UNCHANGED <<inputs, usableVars, rangeVars, solarVars, sweepVars,
                   summaryVars, layoutVars,
                   polyVars>>

\* lines 137-139: st.error and st.stop() end the run
IrradianceMissing(irr) == irr = None

IrradianceGuard ==
    /\ pc = "guard"
    /\ pc' = IF IrradianceMissing(irradiance) THEN "stopped" ELSE "solar"
    /\ UNCHANGED <<inputs, usableVars, rangeVars, fetchVars, solarVars, sweepVars,
                   summaryVars, layoutVars,
                   polyVars>>

\* lines 141-144
SolarGeometry ==
    /\ pc = "solar"
    /\ solar_angle' = critical_solar_angle(lat)
    /\ shadow_len' = shadow_length(panel_tilt, panel_length, critical_solar_angle(lat))
    /\ i' = 1
    /\ pc' = "sweep"
    /\ UNCHANGED <<inputs, usableVars, rangeVars, fetchVars, spacing, rows_possible,
                   panels_per_row, gross_panels, total_area_panels, total_panels,
                   shading_loss, yield_per_panel, total_energy, spacing_results,
                   summaryVars, layoutVars,
                   polyVars>>

\* a quotient rounded to the nearest integer
RoundDiv(length, pitch) == (2 * length + pitch) \div (2 * pitch)

\* lines 146, 148, 230, 231: math.floor(length / pitch), pitch > 0
FloorDiv(length, pitch) == length \div pitch

\* the gross count whatever the usable area
TotalPanelsUncorrected(gross, occupied, usable) == gross

\* the area correction rounded up
TotalPanelsRoundUp(gross, occupied, usable) ==
    IF occupied > usable
    THEN LET m == MulDiv(gross, usable, occupied)
         IN m.q + (IF m.r > 0 THEN 1 ELSE 0)
    ELSE gross

\* lines 153-157
TotalPanels(gross, occupied, usable) ==
    IF occupied > usable THEN MulDiv(gross, usable, occupied).q ELSE gross

\* line 160, over SweepDen
YieldPerPanel(irr, perf, loss) == irr * perf * (200 - loss)

\* line 161 and line 182: yield * count as kWh and a remainder over den
TotalEnergy(yield, count, den) ==
    LET e == MulDiv(count, yield, den) IN [kwh |-> e.q, rem |-> e.r]

\* lines 145-162, one iteration
SweepIteration ==
    /\ pc = "sweep"
    /\ i <= Len(row_spacings)
    /\ LET sp == row_spacings[i]
           rows == FloorDiv(land_length, sp)
           panel_spacing_width == panel_width + panel_gap
           ppr == FloorDiv(land_width, panel_spacing_width)
           gross == ppr * rows
           area_per_panel == sp * panel_spacing_width
           occupied == gross * area_per_panel
           total == TotalPanels(gross, occupied, effective_land_area)
           loss == estimate_shading_loss(sp, shadow_len)
           ypp == YieldPerPanel(irradiance[1], pr, loss)
           energy == TotalEnergy(ypp, total, SweepDen)
       IN /\ spacing' = sp
          /\ rows_possible' = rows
          /\ panels_per_row' = ppr
          /\ gross_panels' = gross
          /\ total_area_panels' = occupied
          /\ total_panels' = total
          /\ shading_loss' = loss
          /\ yield_per_panel' = ypp
          /\ total_energy' = energy
          /\ spacing_results' = Append(spacing_results,
                [spacing |-> sp, total_panels |-> total, total_energy |-> energy])
    /\ i' = i + 1
    /\ UNCHANGED <<pc, inputs, usableVars, rangeVars, fetchVars, solarVars,
                   summaryVars, layoutVars,
                   polyVars>>

SweepEnd ==
    /\ pc = "sweep"
    /\ i > Len(row_spacings)
    /\ pc' = "summary"
    /\ UNCHANGED <<inputs, usableVars, rangeVars, fetchVars, solarVars, sweepVars,
                   summaryVars, layoutVars,
                   polyVars>>

\* an override that also supersedes at zero
TotalPanelsExactNonNegative(override, perRow, rows) ==
    IF override >= 0 THEN override ELSE perRow * rows

\* line 179
TotalPanelsExact(override, perRow, rows) ==
    IF override > 0 THEN override ELSE perRow * rows

\* a yield that leaves the shading loss out
YieldPerPanelExactNoLoss(irr, cap, perf, loss) == irr * cap * perf * 200

\* line 181, over ExactDen
YieldPerPanelExact(irr, cap, perf, loss) == irr * cap * perf * (200 - loss)

\* lines 168-199: the summary, its output and the lists of the plot, of which
\* line 198 binds total_panels to the counts of all rows
SelectedSummary(values) ==
    /\ pc = "summary"
    /\ \E s \in values :
          /\ min_spacing <= 10 * s /\ 10 * s <= max_spacing
          /\ LET rows == FloorDiv(land_length, s)
                 perRow == mounts_per_row * panels_per_mount
                 total == TotalPanelsExact(user_defined_panels, perRow, rows)
                 loss == estimate_shading_loss(s, shadow_len)
                 ypp == YieldPerPanelExact(irradiance[1], panel_capacity_kw, pr, loss)
             IN /\ selected_spacing' = s
                /\ rows_possible_exact' = rows
                /\ panels_per_row_exact' = perRow
                /\ total_panels_exact' = total
                /\ shading_selected' = loss
                /\ yield_per_panel_exact' = ypp
                /\ total_energy_exact' = TotalEnergy(ypp, total, ExactDen)
                /\ system_capacity_kw' = total * panel_capacity_kw
                /\ gcr_selected' = IF spacing_results # <<>>
                                   THEN <<(panel_width * 10000) \div s>> ELSE None
    /\ total_panels' = [k \in 1..Len(spacing_results) |->
                          spacing_results[k].total_panels]
    /\ pc' = "layout"
    /\ UNCHANGED <<inputs, usableVars, rangeVars, fetchVars, solarVars, i, spacing,
                   rows_possible, panels_per_row, gross_panels, total_area_panels,
                   shading_loss, yield_per_panel, total_energy, spacing_results,
                   layoutVars, polyVars>>

\* lines 221-232; a zero divisor raises ZeroDivisionError and ends the run.
\* app.py ends after the estimator; APP_Pro.py goes on (after)
LayoutEstimator(values, after) ==
    /\ pc = "layout"
    /\ \E v \in values :
          /\ layout_land_length' = v[1]
          /\ layout_land_width' = v[2]
          /\ layout_panel_width' = v[3]
          /\ layout_panel_gap' = v[4]
          /\ layout_row_spacing' = v[5]
          /\ IF v[3] + v[4] = 0
             THEN /\ pc' = "raised"
                  /\ UNCHANGED <<panels_per_row_layout, rows_possible_layout,
                                 total_panels_layout>>
             ELSE /\ panels_per_row_layout' = FloorDiv(v[2], v[3] + v[4])
                  /\ IF v[5] = 0
                     THEN /\ pc' = "raised"
                          /\ UNCHANGED <<rows_possible_layout, total_panels_layout>>
                     ELSE /\ rows_possible_layout' = FloorDiv(v[1], v[5])
                          /\ total_panels_layout' =
                                FloorDiv(v[2], v[3] + v[4]) * FloorDiv(v[1], v[5])
                          /\ pc' = after
    /\ UNCHANGED <<inputs, usableVars, rangeVars, fetchVars, solarVars, sweepVars,
                   summaryVars, polyVars>>

\* app.py, with the inputs drawn from the sets above
Next ==
    \/ UsableLandSettings(UsableValues)
    \/ RowSpacingRange(RangeValues)
    \/ FetchIrradiance(ResponseValues)
    \/ IrradianceGuard
    \/ SolarGeometry
    \/ SweepIteration
    \/ SweepEnd
    \/ SelectedSummary(SelectedValues)
    \/ LayoutEstimator(LayoutValues, "done")

Spec == Init /\ [][Next]_vars

(***************************************************************************)
(* APP_Pro.py: the same script followed by the polygon section.  Polygon   *)
(* coordinates and the panel sizes of the polygon section are in units of  *)
(* 1/256 m; a ring is a sequence of <<x, y>> whose last point repeats the  *)
(* first.  The rings drawn are triangles and parallelograms, counter-      *)
(* clockwise and clockwise, whose edges run along the axes or in the       *)
(* directions of a 3-4-5 triangle, so that their edges are a whole number  *)
(* of units long; a 10 x 9 m block with a slot 1 m high cut 8 m into it    *)
(* from the right, whose two arms and spine are too thin for any offset    *)
(* the search tries; and rings that are not valid: all points on one line, *)
(* fewer than 3 distinct points, and a ring that crosses itself.  A shape  *)
(* that comes of an erosion is a ring in a finer unit: [den |-> D, ring |->*)
(* r] has the coordinates r / D units, D the least such number.  An offset *)
(* and an area are fractions [num, den] in lowest terms, of units and of   *)
(* square units.                                                           *)
(***************************************************************************)
\* the projected points (lines 294-299): latlon_to_meters is linear in the
\* differences to the first point, which therefore projects to (0, 0); the
\* first point is entered at longitude 0 and latitude 0, and every coordinate
\* drawn is one that lines 273-274 give for some longitude or latitude
PolygonValues ==
    {<< <<0, 0>>, <<2560, 0>>, <<2560, 2560>>, <<0, 2560>> >>,
     << <<0, 0>>, <<3072, 0>>, <<0, 2304>> >>,
     << <<0, 0>>, <<768, 1024>>, <<2816, 1024>>, <<2048, 0>> >>,
     << <<0, 0>>, <<0, 3072>>, <<4096, 0>> >>,
     << <<0, 0>>, <<3072, 0>>, <<3072, 1536>>, <<0, 1536>> >>,
     << <<0, 0>>, <<512, 0>>, <<3584, 2304>>, <<3072, 2304>> >>,
     << <<0, 0>>, <<2560, 0>>, <<2560, 1024>>, <<512, 1024>>, <<512, 1280>>,
        <<2560, 1280>>, <<2560, 2304>>, <<0, 2304>> >>,
     << <<0, 0>>, <<2560, 2560>>, <<2560, 0>>, <<0, 1280>> >>,
     << <<0, 0>>, <<1280, 0>>, <<2560, 0>> >>,
     << <<0, 0>>, <<0, 0>>, <<0, 0>>, <<0, 0>> >>,
     << <<0, 0>>, <<2560, 0>>, <<0, 0>> >>}
\* the polygon section's checkboxes and the amount entered: the percentage
\* (50..100) when the first box is ticked, else the area (m^2)
PolyUsableValues ==
    {[use_percentage_poly |-> FALSE, use_manual_area_poly |-> TRUE, amount |-> 50],
     [use_percentage_poly |-> FALSE, use_manual_area_poly |-> FALSE, amount |-> 0],
     [use_percentage_poly |-> TRUE, use_manual_area_poly |-> FALSE, amount |-> 90],
     [use_percentage_poly |-> TRUE, use_manual_area_poly |-> TRUE, amount |-> 50],
     [use_percentage_poly |-> TRUE, use_manual_area_poly |-> FALSE, amount |-> 100]}
\* panel width, gap, panel height, row spacing; the third and the last stop
\* the run at a division by zero, the other two of the last four leave the
\* grid without a row and without a column
PolyPanelValues ==
    {<<256, 128, 512, 768>>, <<256, 0, 256, 512>>, <<256, 128, 512, 0>>,
     <<256, 128, 512, 4096>>, <<4352, 0, 512, 768>>, <<0, 0, 512, 768>>}
\* performance ratio, panel capacity, irradiance
PolySummaryValues == {<<82, 55, 2000>>}

rectKept == <<panels_per_mount, mounts_per_row, user_defined_panels, panel_tilt,
              panel_length, pr, land_length, land_width, usableVars, rangeVars,
              pvgis_response, solarVars, spacing, rows_possible, gross_panels,
              total_area_panels, total_panels, shading_loss, yield_per_panel,
              spacing_results, summaryVars, layoutVars, geomVars>>

Abs(n) == IF n < 0 THEN 0 - n ELSE n
MinOf(S) == CHOOSE m \in S : \A n \in S : m <= n
MaxOf(S) == CHOOSE m \in S : \A n \in S : m >= n

\* twice the signed area of a ring (positive when counter-clockwise)
RECURSIVE SignedArea2From(_, _)
SignedArea2From(ring, k) ==
    IF k >= Len(ring) THEN 0
    ELSE ring[k][1] * ring[k + 1][2] - ring[k + 1][1] * ring[k][2]
         + SignedArea2From(ring, k + 1)
SignedArea2(ring) == SignedArea2From(ring, 1)

\* Polygon.area, in (1/256 m)^2, as a fraction
Area(ring) == Frac(Abs(SignedArea2(ring)), 2)

\* Polygon.bounds: (minx, miny, maxx, maxy)
Bounds(ring) ==
    LET xs == {ring[k][1] : k \in 1..Len(ring)}
        ys == {ring[k][2] : k \in 1..Len(ring)}
    IN <<MinOf(xs), MinOf(ys), MaxOf(xs), MaxOf(ys)>>

\* which side of the line a -> b the point p lies on
Cross(a, b, p) == (b[1] - a[1]) * (p[2] - a[2]) - (b[2] - a[2]) * (p[1] - a[1])

\* the same as a wide number
CrossW(a, b, p) ==
    WSub(WMul(WOf(b[1] - a[1]), WOf(p[2] - a[2])),
         WMul(WOf(b[2] - a[2]), WOf(p[1] - a[1])))

\* twice the signed area of a ring as a wide number
RECURSIVE SignedArea2WFrom(_, _)
SignedArea2WFrom(ring, k) ==
    IF k >= Len(ring) THEN WOf(0)
    ELSE WAdd(WSub(WMul(WOf(ring[k][1]), WOf(ring[k + 1][2])),
                   WMul(WOf(ring[k + 1][1]), WOf(ring[k][2]))),
              SignedArea2WFrom(ring, k + 1))
SignedArea2W(ring) == SignedArea2WFrom(ring, 1)

\* a ring in whole units as a shape, and the empty shape
Shape(ring) == [den |-> 1, ring |-> ring]
Empty == [den |-> 1, ring |-> <<>>]

\* the area of a shape as a quotient of wide numbers, in (1/256 m)^2
AreaOf(shape) ==
    [num |-> WAbs(SignedArea2W(shape.ring)), den |-> WOf(2 * shape.den * shape.den)]

\* 1, 0 or -1 as n is over, equal to or under 0
Sgn(n) == IF n > 0 THEN 1 ELSE IF n < 0 THEN -1 ELSE 0

\* 1, 0 or -1 as a / b is over, equal to or under c / d (a >= 0, c >= 0,
\* b > 0, d > 0): by the whole parts, and when they are the same by the
\* remainders, of which the greater one over its divisor is the greater
RECURSIVE CmpRatio(_, _, _, _)
CmpRatio(a, b, c, d) ==
    IF a \div b # c \div d THEN Sgn(a \div b - c \div d)
    ELSE IF a % b = 0 \/ c % d = 0 THEN Sgn(a % b) - Sgn(c % d)
    ELSE CmpRatio(d, c % d, b, a % b)

\* 1, 0 or -1 as p lies to the left of the line a -> b, on it or to its right:
\* the sign of the difference of two products, which their own signs settle
\* unless they are the same and not 0
Side(a, b, p) ==
    LET s1 == Sgn(b[1] - a[1]) * Sgn(p[2] - a[2])
        s2 == Sgn(b[2] - a[2]) * Sgn(p[1] - a[1])
    IN IF s1 # s2 THEN Sgn(s1 - s2)
       ELSE IF s1 = 0 THEN 0
       ELSE s1 * CmpRatio(Abs(b[1] - a[1]), Abs(b[2] - a[2]),
                          Abs(p[1] - a[1]), Abs(p[2] - a[2]))

\* p is on the segment from a to b, the ends included
OnSegment(a, b, p) ==
    /\ MinOf({a[1], b[1]}) <= p[1] /\ p[1] <= MaxOf({a[1], b[1]})
    /\ MinOf({a[2], b[2]}) <= p[2] /\ p[2] <= MaxOf({a[2], b[2]})
    /\ Side(a, b, p) = 0

\* the segments a - b and c - d cross at a point inside both
ProperlyCross(a, b, c, d) ==
    /\ Side(a, b, c) * Side(a, b, d) < 0
    /\ Side(c, d, a) * Side(c, d, b) < 0

\* the segments a - b and c - d have a point in common
SegmentsMeet(a, b, c, d) ==
    \/ ProperlyCross(a, b, c, d)
    \/ OnSegment(a, b, c) \/ OnSegment(a, b, d)
    \/ OnSegment(c, d, a) \/ OnSegment(c, d, b)

\* the edge from the corner to q runs back over the edge from p to the corner
FoldsBack(p, corner, q) ==
    /\ Side(p, corner, q) = 0
    /\ (p[1] - corner[1]) * (q[1] - corner[1])
       + (p[2] - corner[2]) * (q[2] - corner[2]) > 0

\* the ring without the points that repeat the point before them
RECURSIVE NoRepeats(_)
NoRepeats(ring) ==
    IF Len(ring) <= 1 THEN ring
    ELSE IF ring[1] = ring[2] THEN NoRepeats(Tail(ring))
    ELSE <<ring[1]>> \o NoRepeats(Tail(ring))

\* Polygon.is_valid of a closed ring: repeated points apart, the ring has at
\* least 4 points, neighbouring edges share their corner and nothing else, and
\* no other two edges have a point in common
IsValid(ring) ==
    LET r == NoRepeats(ring)
        n == Len(r) - 1
    IN /\ Len(r) >= 4
       /\ \A j \in 1..n : \A k \in (j + 1)..n :
             IF k = j + 1 THEN ~FoldsBack(r[j], r[k], r[k + 1])
             ELSE IF j = 1 /\ k = n THEN ~FoldsBack(r[n], r[1], r[2])
             ELSE ~SegmentsMeet(r[j], r[j + 1], r[k], r[k + 1])

\* the ring in half units
Doubled(ring) == [k \in 1..Len(ring) |-> <<2 * ring[k][1], 2 * ring[k][2]>>]

\* the number of edges, from edge k on, that the ray from p towards greater x
\* crosses
RECURSIVE CrossingsFrom(_, _, _)
CrossingsFrom(ring, p, k) ==
    IF k >= Len(ring) THEN 0
    ELSE LET a == ring[k]
             b == ring[k + 1]
             crossed == \/ a[2] <= p[2] /\ p[2] < b[2] /\ Side(a, b, p) > 0
                        \/ b[2] <= p[2] /\ p[2] < a[2] /\ Side(a, b, p) < 0
         IN (IF crossed THEN 1 ELSE 0) + CrossingsFrom(ring, p, k + 1)

\* p is in the closed polygon: on the ring, or inside it
Covers(ring, p) ==
    \/ \E k \in 1..(Len(ring) - 1) : OnSegment(ring[k], ring[k + 1], p)
    \/ CrossingsFrom(ring, p, 1) % 2 = 1

\* shapely box(minx, miny, maxx, maxy): its four corners
box(x1, y1, x2, y2) == {<<x1, y1>>, <<x2, y1>>, <<x2, y2>>, <<x1, y2>>}

\* the edge from a to b has a point inside the box, the sides of the box not
\* counted: neither axis nor the line of the edge keeps the two apart
EdgeEntersBox(a, b, x1, y1, x2, y2) ==
    /\ MaxOf({a[1], b[1]}) > x1 /\ MinOf({a[1], b[1]}) < x2
    /\ MaxOf({a[2], b[2]}) > y1 /\ MinOf({a[2], b[2]}) < y2
    /\ \E corner \in box(x1, y1, x2, y2) : Side(a, b, corner) > 0
    /\ \E corner \in box(x1, y1, x2, y2) : Side(a, b, corner) < 0

\* a test of the four corners alone
ContainsCorners(ring, x1, y1, x2, y2) ==
    \A corner \in box(x1, y1, x2, y2) : Covers(ring, corner)

\* line 401: usable_polygon.contains(box(...)), for a box of positive area: no
\* point of the box is outside the polygon.  No edge of the ring goes through
\* the inside of the box, and the centre of the box is in the polygon.  The
\* box is in the unit of the ring
Contains(ring, x1, y1, x2, y2) ==
    /\ \A k \in 1..(Len(ring) - 1) :
          ~EdgeEntersBox(ring[k], ring[k + 1], x1, y1, x2, y2)
    /\ Covers(Doubled(ring), <<x1 + x2, y1 + y2>>)

\* APP_Pro.py lines 278-301: the loop of line 281 leaves i at the index of the
\* last point entered, the loop of line 296 leaves lat at the latitude of the
\* closing point, which is the first point's
PolygonInput ==
    /\ pc = "polygon"
    /\ \E pts \in PolygonValues :
          LET closed == Append(pts, pts[1])
          IN /\ x_coords' = [k \in 1..Len(closed) |-> closed[k][1]]
             /\ y_coords' = [k \in 1..Len(closed) |-> closed[k][2]]
             /\ original_polygon' = closed
             /\ i' = Len(pts) - 1
    /\ lat' = 0
    /\ pc' = "polygon_guard"
    /\ UNCHANGED <<rectKept, panel_capacity_kw, panel_width, panel_gap, irradiance,
                   panels_per_row, total_energy, use_percentage_poly,
                   use_manual_area_poly, effective_land_area_poly, usable_polygon,
                   poly_warning, land_usage_percent_poly, offset,
                   panel_height, row_spacing, possible_rows,
                   total_panels_possible, row, col, panel_count, placed,
                   performance_ratio, estimated_energy_per_panel, total_capacity>>

\* APP_Pro.py lines 253-258
validate_polygon(points) ==
    IF Len(points) < 4 THEN FALSE
    ELSE IF points[1] # points[Len(points)] THEN FALSE
    ELSE TRUE

\* a guard that looks for two edges crossing each other and for nothing else
PolygonRejectedByCrossing(ring) ==
    \E j \in 1..(Len(ring) - 1) : \E k \in 1..(Len(ring) - 1) :
       ProperlyCross(ring[j], ring[j + 1], ring[k], ring[k + 1])

\* APP_Pro.py line 303: not is_valid, or is_empty, or fewer than 4 coordinates
PolygonRejected(ring) == ~IsValid(ring) \/ ring = <<>> \/ Len(ring) < 4

\* the largest r in lo..hi with r * r <= n, given lo * lo <= n
RECURSIVE SqrtBetween(_, _, _)
SqrtBetween(n, lo, hi) ==
    IF lo >= hi THEN lo
    ELSE LET m == (lo + hi + 1) \div 2
         IN IF m * m <= n THEN SqrtBetween(n, m, hi) ELSE SqrtBetween(n, lo, m - 1)

\* the length of the edge a -> b, a whole number of units (no other edge has
\* a value)
EdgeLength(a, b) ==
    LET dx == b[1] - a[1]
        dy == b[2] - a[2]
    IN CHOOSE r \in {SqrtBetween(dx * dx + dy * dy, 0, Abs(dx) + Abs(dy))} :
          r * r = dx * dx + dy * dy

\* the ring has four corners and its diagonals halve each other
IsParallelogram(ring) ==
    /\ Len(ring) = 5
    /\ ring[1][1] + ring[3][1] = ring[2][1] + ring[4][1]
    /\ ring[1][2] + ring[3][2] = ring[2][2] + ring[4][2]

\* every edge of the ring runs along an axis, and the ring is no rectangle
IsRectilinear(ring) ==
    /\ Len(ring) > 5
    /\ \A k \in 1..(Len(ring) - 1) :
          ring[k][1] = ring[k + 1][1] \/ ring[k][2] = ring[k + 1][2]

\* twice the greatest distance that a point of a..b has to the nearer of lo
\* and hi (lo <= a < b <= hi)
Reach2(lo, hi, a, b) ==
    IF 2 * a <= lo + hi /\ lo + hi <= 2 * b THEN hi - lo
    ELSE 2 * MaxOf({MinOf({a - lo, hi - a}), MinOf({b - lo, hi - b})})

\* for a polygon whose edges run along the axes: twice the greatest distance
\* that a point of the polygon has to the ring along the nearer axis.  The
\* lines through the corners cut the polygon into cells; across a cell the
\* ring lies at the same places to the left, to the right, below and above
AxisReach2(ring) ==
    LET X == {ring[k][1] : k \in 1..Len(ring)}
        Y == {ring[k][2] : k \in 1..Len(ring)}
        after(S, v) == MinOf({w \in S : w > v})
        cells == {c \in X \X Y : c[1] < MaxOf(X) /\ c[2] < MaxOf(Y)}
        in(c) == /\ c \in cells
                 /\ Covers(Doubled(ring),
                           <<c[1] + after(X, c[1]), c[2] + after(Y, c[2])>>)
        left(c) == MaxOf({x \in X : /\ x <= c[1]
                                    /\ \A w \in X : (w < x /\ after(X, w) = x)
                                                       => ~in(<<w, c[2]>>)})
        right(c) == MinOf({x \in X : x > c[1] /\ ~in(<<x, c[2]>>)})
        below(c) == MaxOf({y \in Y : /\ y <= c[2]
                                     /\ \A w \in Y : (w < y /\ after(Y, w) = y)
                                                        => ~in(<<c[1], w>>)})
        above(c) == MinOf({y \in Y : y > c[2] /\ ~in(<<c[1], y>>)})
    IN MaxOf({MinOf({Reach2(left(c), right(c), c[1], after(X, c[1])),
                     Reach2(below(c), above(c), c[2], after(Y, c[2]))}) :
                 c \in {cell \in cells : in(cell)}})

\* no point is at least d inside every edge: the triangle's inscribed circle
\* has a radius of d or less, the parallelogram is not wider than 2 * d, no
\* point of the polygon with edges along the axes is as far as d from the ring
\* even along an axis (no other ring, and no such polygon at a lesser d, has a
\* value)
Collapsed(ring, d) ==
    LET s == IF SignedArea2(ring) > 0 THEN 1 ELSE -1
    IN CASE IsRectilinear(ring) /\ AxisReach2(ring) * d.den < 2 * d.num -> TRUE
         [] Len(ring) = 4 ->
              LET perimeter == EdgeLength(ring[1], ring[2])
                               + EdgeLength(ring[2], ring[3])
                               + EdgeLength(ring[3], ring[4])
              IN ~WLess(WMul(WOf(d.num), WOf(perimeter)),
                        WMul(WOf(Abs(SignedArea2(ring))), WOf(d.den)))
         [] IsParallelogram(ring) ->
              \E k \in 1..4 :
                 LET reach == WMul(WOf(2 * d.num),
                                   WOf(EdgeLength(ring[k], ring[k + 1])))
                 IN \A j \in 1..4 :
                       ~WLess(reach, WMul(WOf(s * Cross(ring[k], ring[k + 1], ring[j])),
                                          WOf(d.den)))

\* the corner k moved to where the two edges through it, each shifted inward
\* by d, meet: inward is to the left of a counter-clockwise ring's edges and
\* to the right of a clockwise ring's.  The two coordinates are fractions
ShiftedCorner(ring, k, d) ==
    LET s == IF SignedArea2(ring) > 0 THEN 1 ELSE -1
        prev == IF k = 1 THEN Len(ring) - 1 ELSE k - 1
        u1 == <<ring[k][1] - ring[prev][1], ring[k][2] - ring[prev][2]>>
        u2 == <<ring[k + 1][1] - ring[k][1], ring[k + 1][2] - ring[k][2]>>
        l1 == EdgeLength(ring[prev], ring[k])
        l2 == EdgeLength(ring[k], ring[k + 1])
        c == s * (u1[1] * u2[2] - u1[2] * u2[1])
        dx == FracMul(d, Frac(l1 * u2[1] - l2 * u1[1], c))
        dy == FracMul(d, Frac(l1 * u2[2] - l2 * u1[2], c))
    IN <<[num |-> ring[k][1] * dx.den + dx.num, den |-> dx.den],
         [num |-> ring[k][2] * dy.den + dy.num, den |-> dy.den]>>

\* the least common denominator of the corners from k on
RECURSIVE CornersDen(_, _)
CornersDen(corners, k) ==
    IF k > Len(corners) THEN 1
    ELSE Lcm(Lcm(corners[k][1].den, corners[k][2].den), CornersDen(corners, k + 1))

\* APP_Pro.py lines 329, 342: polygon.buffer(-d) for d >= 0, the polygon
\* eroded by d, empty when nothing is left; no TopologicalError comes of it.
\* The ring is written from the first corner on in the polygon's orientation;
\* the script reads only the bounds, the area and the containment of the shape.
Buffer(ring, d) ==
    IF Collapsed(ring, d) THEN Empty
    ELSE LET corners == [k \in 1..(Len(ring) - 1) |-> ShiftedCorner(ring, k, d)]
             D == CornersDen(corners, 1)
         IN [den |-> D,
             ring |-> [k \in 1..Len(ring) |->
                         LET p == corners[IF k = Len(ring) THEN 1 ELSE k]
                         IN <<p[1].num * (D \div p[1].den),
                              p[2].num * (D \div p[2].den)>>]]

\* APP_Pro.py line 330: not shrunk.is_empty and shrunk.is_valid
Usable(shape) == shape.ring # <<>> /\ WSign(SignedArea2W(shape.ring)) # 0

\* a shape is taken as it comes
UnusableNever(shape) == FALSE

\* APP_Pro.py line 343: usable_polygon.is_empty or not usable_polygon.is_valid
Unusable(shape) == shape.ring = <<>> \/ WSign(SignedArea2W(shape.ring)) = 0

\* APP_Pro.py line 323: area_original * target_percent / 100
TargetArea(polygon, target_percent) ==
    [num |-> WMul(WOf(Abs(SignedArea2(polygon))), WOf(target_percent)),
     den |-> WOf(2 * 100)]

\* a tolerance of 0.1 in place of 0.01
WithinToleranceTenth(area, target_area) ==
    QLess(QTimes(QAbsDiff(area, target_area), 10), target_area)

\* APP_Pro.py line 332: abs(area - target_area) / target_area < tolerance, the
\* tolerance being 0.01 and the target positive
WithinTolerance(area, target_area) ==
    QLess(QTimes(QAbsDiff(area, target_area), 100), target_area)

\* APP_Pro.py lines 327-338, the iterations from n on; steps counts the
\* iterations run, emptied is the first iteration that met an empty or
\* invalid shape (0 when none has).  Such an iteration moves neither low nor
\* high, so that the next one has the same midpoint.  low, high, mid and the
\* offset are fractions of units
RECURSIVE OffsetSearch(_, _, _, _, _, _, _)
OffsetSearch(polygon, target_percent, low, high, mid, n, emptied) ==
    IF n = 30
    THEN [offset |-> mid, steps |-> n, converged |-> FALSE,
          collapsed |-> emptied # 0, emptied |-> emptied]
    ELSE LET m == FracMid(low, high)
             shrunk == Buffer(polygon, m)
         IN IF Usable(shrunk)
            THEN LET area == AreaOf(shrunk)
                     target_area == TargetArea(polygon, target_percent)
                 IN IF WithinTolerance(area, target_area)
                    THEN [offset |-> m, steps |-> n + 1, converged |-> TRUE,
                          collapsed |-> emptied # 0, emptied |-> emptied]
                    ELSE IF QLess(target_area, area)
                         THEN OffsetSearch(polygon, target_percent, m, high, m, n + 1,
                                           emptied)
                         ELSE OffsetSearch(polygon, target_percent, low, m, m, n + 1,
                                           emptied)
            ELSE OffsetSearch(polygon, target_percent, low, high, m, n + 1,
                              IF emptied = 0 THEN n + 1 ELSE emptied)

\* APP_Pro.py lines 321-338
compute_offset_for_target_area(polygon, target_percent) ==
    LET b == Bounds(polygon)
        smaller == IF b[3] - b[1] < b[4] - b[2] THEN b[3] - b[1] ELSE b[4] - b[2]
    IN OffsetSearch(polygon, target_percent, Frac(0, 1), Frac(smaller, 2),
                    Frac(0, 1), 0, 0).offset

\* APP_Pro.py lines 303-350: the error, or the usable area settings.  The
\* effective area is a fraction of square units: the whole area (line 313),
\* that area times the percentage over 100 (line 319), or the area entered
\* in whole square metres (line 350)
UsablePolygon ==
    /\ pc = "polygon_guard"
    /\ IF PolygonRejected(original_polygon)
       THEN /\ pc' = "polygon_rejected"
            /\ UNCHANGED <<use_percentage_poly, use_manual_area_poly,
                           effective_land_area_poly, usable_polygon, poly_warning,
                           land_usage_percent_poly, offset>>
       ELSE /\ \E u \in PolyUsableValues :
                  /\ use_percentage_poly' = u.use_percentage_poly
                  /\ use_manual_area_poly' = u.use_manual_area_poly
                  /\ IF u.use_percentage_poly
                     THEN LET found == compute_offset_for_target_area(
                                          original_polygon, u.amount)
                              shrunk == Buffer(original_polygon, found)
                          IN /\ land_usage_percent_poly' = u.amount
                             /\ effective_land_area_poly' =
                                   Frac(Abs(SignedArea2(original_polygon)) * u.amount,
                                        2 * 100)
                             /\ offset' = found
                             /\ IF Unusable(shrunk)
                                THEN /\ usable_polygon' = Shape(original_polygon)
                                     /\ poly_warning' = TRUE
                                ELSE usable_polygon' = shrunk /\ poly_warning' = FALSE
                     ELSE /\ effective_land_area_poly' =
                                IF u.use_manual_area_poly
                                THEN Frac(u.amount * 256 * 256, 1)
                                ELSE Area(original_polygon)
                          /\ usable_polygon' = Shape(original_polygon)
                          /\ UNCHANGED <<poly_warning, land_usage_percent_poly, offset>>
            /\ pc' = "panel_layout"
    /\ UNCHANGED <<rectKept, lat, i, panel_capacity_kw, panel_width, panel_gap,
                   irradiance,
                   panels_per_row, total_energy, x_coords, y_coords, original_polygon,
                   panel_height, row_spacing, possible_rows,
                   total_panels_possible, row, col, panel_count, placed,
                   performance_ratio, estimated_energy_per_panel, total_capacity>>

\* APP_Pro.py lines 372-395: the grid over the bounding box, whose sides are
\* in the unit of the usable polygon.  The // of line 384 raises at a row
\* spacing of 0 before anything is bound, the // of line 385 at a pitch of 0
\* after possible_rows is bound.  row and col are not bound before the loops
\* bind them
PanelLayoutSetup ==
    /\ pc = "panel_layout"
    /\ \E v \in PolyPanelValues :
          LET b == Bounds(usable_polygon.ring)
              total_height == b[4] - b[2]
              total_width == b[3] - b[1]
              panel_spacing_width == v[1] + v[2]
          IN /\ panel_width' = v[1]
             /\ panel_gap' = v[2]
             /\ panel_height' = v[3]
             /\ row_spacing' = v[4]
             /\ IF v[4] = 0
                THEN /\ pc' = "raised"
                     /\ UNCHANGED <<possible_rows, panels_per_row,
                                    total_panels_possible, panel_count, placed>>
                ELSE /\ possible_rows' =
                           FloorDiv(total_height, v[4] * usable_polygon.den)
                     /\ IF panel_spacing_width = 0
                        THEN /\ pc' = "raised"
                             /\ UNCHANGED <<panels_per_row, total_panels_possible,
                                            panel_count, placed>>
                        ELSE /\ panels_per_row' =
                                   FloorDiv(total_width,
                                            panel_spacing_width * usable_polygon.den)
                             /\ total_panels_possible' =
                                   FloorDiv(total_height, v[4] * usable_polygon.den)
                                   * FloorDiv(total_width,
                                              panel_spacing_width * usable_polygon.den)
                             /\ panel_count' = 0 /\ placed' = <<>>
                             /\ pc' = "grid"
    /\ UNCHANGED <<rectKept, lat, i, row, col, panel_capacity_kw, irradiance,
                   total_energy, x_coords,
                   y_coords, original_polygon, use_percentage_poly,
                   use_manual_area_poly, effective_land_area_poly, usable_polygon,
                   poly_warning, land_usage_percent_poly, offset,
                   performance_ratio, estimated_energy_per_panel,
                   total_capacity>>

\* APP_Pro.py lines 396-403, one cell of the grid: rows in the outer loop,
\* columns in the inner loop.  row and col are the cell the loops are at: the
\* first cell when the loops begin ("grid"), then the cell after (row, col).
\* The box and the place of the panel are in the unit of the usable polygon
PlacePanel ==
    /\ pc \in {"grid", "placing"}
    /\ possible_rows > 0 /\ panels_per_row > 0
    /\ pc = "placing" => (col + 1 < panels_per_row \/ row + 1 < possible_rows)
    /\ LET r == IF pc = "grid" THEN 0
                ELSE IF col + 1 < panels_per_row THEN row ELSE row + 1
           c == IF pc = "grid" THEN 0
                ELSE IF col + 1 < panels_per_row THEN col + 1 ELSE 0
           den == usable_polygon.den
           b == Bounds(usable_polygon.ring)
           y == b[2] + r * row_spacing * den
           x == b[1] + c * (panel_width + panel_gap) * den
       IN /\ row' = r /\ col' = c
          /\ IF Contains(usable_polygon.ring, x, y, x + panel_width * den,
                         y + panel_height * den)
             THEN /\ placed' = Append(placed, <<x, y>>)
                  /\ panel_count' = panel_count + 1
             ELSE UNCHANGED <<placed, panel_count>>
    /\ pc' = "placing"
    /\ UNCHANGED <<rectKept, lat, i, panel_capacity_kw, panel_width, panel_gap,
                   irradiance,
                   panels_per_row, total_energy, x_coords, y_coords, original_polygon,
                   use_percentage_poly, use_manual_area_poly,
                   effective_land_area_poly, usable_polygon, poly_warning,
                   land_usage_percent_poly, offset,
                   panel_height, row_spacing, possible_rows, total_panels_possible,
                   performance_ratio, estimated_energy_per_panel, total_capacity>>

\* the loops are exhausted: after the last cell, or at once when the grid has
\* no cell; rows without a column still take row through all of them
PlacingEnd ==
    /\ \/ pc = "grid" /\ (possible_rows <= 0 \/ panels_per_row <= 0)
       \/ pc = "placing" /\ col + 1 >= panels_per_row /\ row + 1 >= possible_rows
    /\ row' = IF pc = "grid" /\ possible_rows > 0 THEN possible_rows - 1 ELSE row
    /\ pc' = "polygon_summary"
    /\ UNCHANGED <<rectKept, lat, i, col, panel_capacity_kw, panel_width, panel_gap,
                   irradiance,
                   panels_per_row, total_energy, x_coords, y_coords, original_polygon,
                   use_percentage_poly, use_manual_area_poly,
                   effective_land_area_poly, usable_polygon, poly_warning,
                   land_usage_percent_poly, offset, panel_count, placed,
                   panel_height, row_spacing, possible_rows, total_panels_possible,
                   performance_ratio, estimated_energy_per_panel, total_capacity>>

\* APP_Pro.py lines 415-421; the energy is kWh and a remainder over 100 * 100
PolygonSummary ==
    /\ pc = "polygon_summary"
    /\ \E v \in PolySummaryValues :
          /\ performance_ratio' = v[1]
          /\ panel_capacity_kw' = v[2]
          /\ irradiance' = <<v[3]>>
          /\ estimated_energy_per_panel' = v[3] * v[2] * v[1]
          /\ total_energy' = TotalEnergy(v[3] * v[2] * v[1], panel_count, 100 * 100)
          /\ total_capacity' = panel_count * v[2]
    /\ pc' = "done"
    /\ UNCHANGED <<rectKept, lat, i, panel_width, panel_gap, panels_per_row, x_coords,
                   y_coords, original_polygon, use_percentage_poly,
                   use_manual_area_poly, effective_land_area_poly, usable_polygon,
                   poly_warning, land_usage_percent_poly, offset,
                   panel_height, row_spacing, possible_rows,
                   total_panels_possible, row, col, panel_count, placed>>

\* APP_Pro.py lines 59-76: the widgets at their default values
ProInit ==
    /\ pc = "usable"
    /\ mounts_per_row = 5 /\ panels_per_mount = 10 /\ panel_capacity_kw = 55
    /\ user_defined_panels = 0 /\ lat = 2828 /\ panel_tilt = 25
    /\ panel_height = 150 /\ panel_length = 200 /\ pr = 82
    /\ land_length = 23000 /\ land_width = 20000
    /\ panel_width = 110 /\ panel_gap = 20
    /\ spacing = 0 /\ shading_loss = 0
    /\ NotYetBound /\ HelpersNotCalled

\* APP_Pro.py: the rectangular part at its defaults, then the polygon section
ProNext ==
    \/ UsableLandSettings({[use_percentage |-> TRUE, use_manual_area |-> FALSE,
                            amount |-> 90]})
    \/ RowSpacingRange({<<4000, 12000>>})
    \/ FetchIrradiance({[kind |-> "ok", E_y |-> 2000]})
    \/ IrradianceGuard
    \/ SolarGeometry
    \/ SweepIteration
    \/ SweepEnd
    \/ SelectedSummary({400})
    \/ LayoutEstimator({<<23000, 20000, 110, 20, 800>>}, "polygon")
    \/ PolygonInput
    \/ UsablePolygon
    \/ PanelLayoutSetup
    \/ PlacePanel
    \/ PlacingEnd
    \/ PolygonSummary

ProSpec == ProInit /\ [][ProNext]_vars

(***************************************************************************)
(* estimate_shading_loss as a function of its two lengths, in cm as        *)
(* everywhere: at a spacing of 100 m the widths 0.01 .. 70 m take gcr over  *)
(* 0.0001 .. 0.7 in steps of 0.0001; at a spacing of 0.4 m they take it     *)
(* through every threshold and far beyond.                                 *)
(***************************************************************************)
MaxShadeWidth == 7000
ShadeSpacings == {10000, 40}

ShadeInit ==
    /\ pc = "shade"
    /\ panel_width \in 1..MaxShadeWidth
    /\ spacing \in ShadeSpacings
    /\ shading_loss = 0
    /\ mounts_per_row = 5 /\ panels_per_mount = 10 /\ panel_capacity_kw = 55
    /\ user_defined_panels = 0 /\ lat = 2828 /\ panel_tilt = 25
    /\ panel_length = 200 /\ pr = 82 /\ land_length = 23000 /\ land_width = 20000
    /\ panel_gap = 20 /\ panel_height = 150
    /\ NotYetBound /\ HelpersNotCalled

ShadeApply ==
    /\ pc = "shade"
    /\ shading_loss' = estimate_shading_loss(spacing, shadow_len)
    /\ pc' = "shaded"
    /\ UNCHANGED <<inputs, usableVars, rangeVars, fetchVars, solarVars, i, spacing,
                   rows_possible, panels_per_row, gross_panels, total_area_panels,
                   total_panels, yield_per_panel, total_energy, spacing_results,
                   summaryVars, layoutVars,
                   polyVars>>

ShadeNext == ShadeApply

ShadeSpec == ShadeInit /\ [][ShadeNext]_vars

(***************************************************************************)
(* The helpers validate_polygon and polygon_area of APP_Pro.py as functions *)
(* of a point sequence; here the coordinates are whole metres and the area  *)
(* is in units of 0.5 m^2.                                                  *)
(***************************************************************************)
MaxPoints == 5
HelperPoints == ({0, 10} \X {0, 10}) \cup {<<5, 3>>}

\* np.roll(a, 1): every element moves one place up, the last comes first
Roll(a) == [k \in 1..Len(a) |-> a[IF k = 1 THEN Len(a) ELSE k - 1]]

\* np.dot of two vectors of one length
RECURSIVE DotFrom(_, _, _)
DotFrom(a, b, k) == IF k > Len(a) THEN 0 ELSE a[k] * b[k] + DotFrom(a, b, k + 1)
Dot(a, b) == DotFrom(a, b, 1)

\* the difference of the two products without its absolute value
polygon_area_signed(points) ==
    LET x == [k \in 1..Len(points) |-> points[k][1]]
        y == [k \in 1..Len(points) |-> points[k][2]]
    IN Dot(x, Roll(y)) - Dot(y, Roll(x))

\* APP_Pro.py lines 260-263, times 2
polygon_area(points) ==
    LET x == [k \in 1..Len(points) |-> points[k][1]]
        y == [k \in 1..Len(points) |-> points[k][2]]
    IN Abs(Dot(x, Roll(y)) - Dot(y, Roll(x)))

HelperInit ==
    /\ pc = "helpers"
    /\ coords \in UNION {[1..n -> HelperPoints] : n \in 0..MaxPoints}
    /\ validate_polygon_result = FALSE /\ polygon_area_result = 0
    /\ mounts_per_row = 5 /\ panels_per_mount = 10 /\ panel_capacity_kw = 55
    /\ user_defined_panels = 0 /\ lat = 2828 /\ panel_tilt = 25
    /\ panel_length = 200 /\ pr = 82 /\ land_length = 23000 /\ land_width = 20000
    /\ panel_width = 110 /\ panel_gap = 20 /\ panel_height = 150
    /\ spacing = 0 /\ shading_loss = 0
    /\ NotYetBound

HelperApply ==
    /\ pc = "helpers"
    /\ validate_polygon_result' = validate_polygon(coords)
    /\ polygon_area_result' = polygon_area(coords)
    /\ pc' = "helpers_done"
    /\ UNCHANGED <<inputs, usableVars, rangeVars, fetchVars, solarVars, sweepVars,
                   summaryVars, layoutVars, coords,
                   x_coords, y_coords, original_polygon, use_percentage_poly,
                   use_manual_area_poly, effective_land_area_poly, usable_polygon,
                   poly_warning, land_usage_percent_poly, offset, panel_height,
                   row_spacing, possible_rows, total_panels_possible, row, col,
                   panel_count, placed, performance_ratio,
                   estimated_energy_per_panel, total_capacity>>

HelperNext == HelperApply

HelperSpec == HelperInit /\ [][HelperNext]_vars

(***************************************************************************)
(* Properties                                                              *)
(***************************************************************************)
\* q = floor(a / b), for b > 0
IsFloor(q, a, b) == q * b <= a /\ a < (q + 1) * b

\* the computed gcr = width / sp is under tenths/10: the ratio is, or it is
\* equal and the division rounded the quotient down
GcrUnder(width, sp, tenths) ==
    \/ 10 * width < tenths * sp
    \/ 10 * width = tenths * sp /\ <<width, sp>> \in GcrRoundedDown

\* the band of the computed gcr, each band by its two thresholds
LossBand(width, sp) ==
    CASE ~GcrUnder(width, sp, 7) -> 24
      [] ~GcrUnder(width, sp, 6) /\ GcrUnder(width, sp, 7) -> 16
      [] ~GcrUnder(width, sp, 5) /\ GcrUnder(width, sp, 6) -> 10
      [] ~GcrUnder(width, sp, 4) /\ GcrUnder(width, sp, 5) -> 6
      [] ~GcrUnder(width, sp, 3) /\ GcrUnder(width, sp, 4) -> 3
      [] GcrUnder(width, sp, 3) -> 2

\* the sweep loop has run at least one iteration: its variables hold a row
SweepRowDone == pc \in {"sweep", "summary", "layout", "done", "raised"} /\ i > 1
\* and total_panels still holds that row's count
SweepCountHeld == pc \in {"sweep", "summary"} /\ i > 1
SweepOver == pc \in {"summary", "layout", "done", "raised"}
SummaryDone == pc \in {"layout", "done", "raised"}

\* C1 (as amended): rowsPossible = floor(length / spacing), panelsPerRow =
\* floor(width / pitchX) and grossPanels = rowsPossible * panelsPerRow in every
\* sweep row and in the layout estimator; the selected-spacing summary takes
\* rowsPossible = floor(length / selected spacing) but panelsPerRow =
\* mounts_per_row * panels_per_mount. 230 x 200 at spacing 8 with pitch 1.3
\* gives 28 rows of 153.
C1_PackerCounts ==
    /\ SweepRowDone =>
          /\ IsFloor(rows_possible, land_length, spacing)
          /\ IsFloor(panels_per_row, land_width, panel_width + panel_gap)
          /\ gross_panels = rows_possible * panels_per_row
          /\ (land_length = 23000 /\ land_width = 20000 /\ spacing = 800
                /\ panel_width = 110 /\ panel_gap = 20)
             => (rows_possible = 28 /\ panels_per_row = 153)
    /\ SummaryDone =>
          /\ IsFloor(rows_possible_exact, land_length, selected_spacing)
          /\ panels_per_row_exact = mounts_per_row * panels_per_mount
    /\ pc = "done" =>
          /\ IsFloor(rows_possible_layout, layout_land_length, layout_row_spacing)
          /\ IsFloor(panels_per_row_layout, layout_land_width,
                     layout_panel_width + layout_panel_gap)
          /\ total_panels_layout = rows_possible_layout * panels_per_row_layout

\* C1 as stated: the selected-spacing summary also takes floor(width / pitchX)
C1_Original ==
    /\ SweepRowDone =>
          /\ IsFloor(rows_possible, land_length, spacing)
          /\ IsFloor(panels_per_row, land_width, panel_width + panel_gap)
          /\ gross_panels = rows_possible * panels_per_row
    /\ SummaryDone =>
          /\ IsFloor(rows_possible_exact, land_length, selected_spacing)
          /\ IsFloor(panels_per_row_exact, land_width, panel_width + panel_gap)
    /\ pc = "done" =>
          /\ IsFloor(rows_possible_layout, layout_land_length, layout_row_spacing)
          /\ IsFloor(panels_per_row_layout, layout_land_width,
                     layout_panel_width + layout_panel_gap)
          /\ total_panels_layout = rows_possible_layout * panels_per_row_layout

\* the run is over, the sweep's last row was 230 x 200 at spacing 8, the summary
\* used the table structure and the layout estimator counted 28 x 153
C1_Witness ==
    /\ pc = "done"
    /\ land_length = 23000 /\ land_width = 20000 /\ spacing = 800
    /\ rows_possible = 28 /\ panels_per_row = 153 /\ gross_panels = 4284
    /\ panels_per_row_exact = 50 /\ rows_possible_exact = 28
    /\ total_panels_layout = 4284

\* C2: in a sweep row, when grossPanels * pitchY * pitchX exceeds the usable area
\* the total is grossPanels * usableArea / occupiedArea truncated to an integer
\* (the largest count whose cells fit the usable area); otherwise it is
\* grossPanels unchanged.
C2_AreaCorrection ==
    SweepCountHeld =>
       LET cell == spacing * (panel_width + panel_gap)
           occupied == gross_panels * cell
       IN /\ total_area_panels = occupied
          /\ IF occupied > effective_land_area
             THEN /\ total_panels = MulDiv(gross_panels, effective_land_area, occupied).q
                  /\ total_panels * cell <= effective_land_area
                  /\ effective_land_area < (total_panels + 1) * cell
             ELSE total_panels = gross_panels

\* a row whose gross grid exceeds the usable area and was scaled down to a
\* count that is not a whole number before truncation
C2_Witness ==
    /\ SweepCountHeld
    /\ total_area_panels > effective_land_area
    /\ 0 < total_panels /\ total_panels < gross_panels
    /\ total_panels * spacing * (panel_width + panel_gap) < effective_land_area

\* C3: the shading loss of gcr = panelWidth / rowSpacing is 0.12 from 0.7 up,
\* 0.08 from 0.6, 0.05 from 0.5, 0.03 from 0.4, 0.015 from 0.3 and 0.01 below,
\* each threshold inclusive (gcr 0.7 gives 0.12, gcr 0.6999 gives 0.08), and a
\* smaller gcr never has the larger loss.  The gcr is the quotient as the
\* division computes it: 0.16 / 0.4 is just under 0.4 and has the loss 0.015.
C3_ShadingBands ==
    pc = "shaded" =>
       /\ shading_loss = LossBand(panel_width, spacing)
       /\ (panel_width = 7000 /\ spacing = 10000) => shading_loss = 24
       /\ (panel_width = 6999 /\ spacing = 10000) => shading_loss = 16
       /\ (panel_width = 28 /\ spacing = 40) => shading_loss = 24
       /\ (panel_width = 16 /\ spacing = 40) => shading_loss = 3
       /\ \A sp \in ShadeSpacings :
             sp >= spacing => estimate_shading_loss(sp, shadow_len) <= shading_loss
       /\ panel_width > 1 =>
             ShadingBand(panel_width - 1, spacing) <= shading_loss

\* the function was applied at gcr = 0.6999, one step under the 0.7 threshold
C3_Witness ==
    pc = "shaded" /\ panel_width = 6999 /\ spacing = 10000 /\ shading_loss = 16

\* C4 (as amended): for the selected spacing, N is the override when it is
\* positive and floor(length / selected) * mounts_per_row * panels_per_mount
\* otherwise; capacityKw = N * panelCapacityKw and annualEnergyKwh =
\* N * irradiance * panelCapacityKw * performanceRatio * (1 - shadingLoss); the
\* shading loss is that of panelWidth / selected spacing whatever the override.
C4_SelectedScenario ==
    SummaryDone =>
       LET band == LossBand(panel_width, selected_spacing)
           N == IF user_defined_panels > 0 THEN user_defined_panels
                ELSE rows_possible_exact * mounts_per_row * panels_per_mount
       IN /\ IsFloor(rows_possible_exact, land_length, selected_spacing)
          /\ total_panels_exact = N
          /\ system_capacity_kw = N * panel_capacity_kw
          /\ shading_selected = band
          /\ yield_per_panel_exact =
                irradiance[1] * panel_capacity_kw * pr * (200 - band)
          /\ total_energy_exact =
                TotalEnergy(irradiance[1] * panel_capacity_kw * pr * (200 - band),
                            N, ExactDen)

\* C4 as stated: without an override N is rowsPossible * panelsPerRow of the
\* footprint
C4_Original ==
    SummaryDone =>
       LET band == LossBand(panel_width, selected_spacing)
           N == IF user_defined_panels > 0 THEN user_defined_panels
                ELSE (land_length \div selected_spacing)
                     * (land_width \div (panel_width + panel_gap))
       IN /\ total_panels_exact = N
          /\ system_capacity_kw = N * panel_capacity_kw
          /\ shading_selected = band
          /\ total_energy_exact =
                TotalEnergy(irradiance[1] * panel_capacity_kw * pr * (200 - band),
                            N, ExactDen)

\* a summary computed under an override of 4284 panels
C4_Witness ==
    /\ SummaryDone
    /\ user_defined_panels = 4284 /\ total_panels_exact = 4284
    /\ panels_per_row_exact * rows_possible_exact # 4284
    /\ system_capacity_kw = 4284 * panel_capacity_kw
    /\ total_energy_exact.kwh > 0

\* n rounded to 2 decimals: millimetres to centimetres
IsRound2(cm, mm) == 10 * cm - 5 <= mm /\ mm < 10 * cm + 5

\* the sweep's spacings when it accepts min + k * 0.1 up to max + slack
SweepVisits(slack) ==
    LET n == (max_spacing + slack - min_spacing) \div 100 + 1
    IN /\ Len(row_spacings) = n
       /\ \A k \in 1..n : IsRound2(row_spacings[k], min_spacing + (k - 1) * 100)
       /\ \A k \in 1..(n - 1) : row_spacings[k] < row_spacings[k + 1]
       /\ IsRound2(row_spacings[1], min_spacing)
       /\ (max_spacing - min_spacing) % 100 = 0 => IsRound2(row_spacings[n], max_spacing)
       /\ pc = "sweep" => Len(spacing_results) = i - 1
       /\ SweepOver => Len(spacing_results) = n
       /\ \A k \in 1..Len(spacing_results) :
             spacing_results[k].spacing = row_spacings[k]

\* C5 (as amended): the sweep visits exactly the spacings min + k * 0.1 m
\* (k = 0, 1, ...) with spacing <= max + 0.01 m, each rounded to 2 decimals, in
\* ascending order, one SpacingResult per visited spacing; min is the first row
\* and a max reachable in whole steps is the last.
C5_SweepSpacings == pc \notin {"usable", "range"} => SweepVisits(10)

\* C5 as stated: spacing <= max + step / 2
C5_Original == pc \notin {"usable", "range"} => SweepVisits(50)

\* a finished sweep from 4.006 to 4.572: six rows, 4.01 .. 4.51, and no 4.61
C5_Witness ==
    /\ SweepOver
    /\ min_spacing = 4006 /\ max_spacing = 4572
    /\ Len(spacing_results) = 6
    /\ spacing_results[1].spacing = 401 /\ spacing_results[6].spacing = 451

\* C6: every SpacingResult's energy is totalPanels * irradiance * panelCapacityKw
\* * performanceRatio * (1 - shadingLoss(panelWidth / spacing))
C6_SweepEnergy ==
    SweepRowDone =>
       \A k \in 1..Len(spacing_results) :
          LET result == spacing_results[k]
              claimed == TotalEnergy(irradiance[1] * panel_capacity_kw * pr
                                        * (200 - LossBand(panel_width, result.spacing)),
                                     result.total_panels, ExactDen)
          IN /\ result.total_energy.kwh = claimed.kwh
             /\ result.total_energy.rem * (ExactDen \div SweepDen) = claimed.rem

\* the inputs of the end-to-end scenario
ScenarioInputs ==
    /\ lat = 2828 /\ panel_tilt = 25 /\ panel_length = 200
    /\ panel_width = 110 /\ panel_gap = 20
    /\ land_length = 23000 /\ land_width = 20000
    /\ pr = 82 /\ panel_capacity_kw = 55 /\ irradiance = <<2000>>

\* C7 (as amended): in the scenario the sweep row and the layout estimator at
\* spacing 8 give 28 rows of 153, 4284 panels gross; the row's total is 4284
\* exactly when the usable area is at least the 44,553.6 m^2 that 4284 panels
\* take (as at 97% and at 100% of the land), and the whole number of panels
\* that fit the usable area when it is less (3980 at 90%, 5 on 60 m^2); the
\* summary at spacing 8 gives GCR 0.1375,
\* shading loss 0.01 and yieldPerPanel 892.98 kWh, a count of 1400 from the
\* default 5 x 10 table structure, and with a count of 4284 a total of
\* 3,825,526.32 kWh/year and 2356.2 kW.
C7_Scenario ==
    /\ (ScenarioInputs /\ SweepRowDone /\ spacing = 800) =>
          /\ rows_possible = 28 /\ panels_per_row = 153 /\ gross_panels = 4284
          /\ shading_loss = 2
          /\ SweepCountHeld =>
                /\ total_panels = 4284 <=> effective_land_area >= 445536000
                /\ effective_land_area < 445536000 =>
                      /\ total_panels * 104000 <= effective_land_area
                      /\ effective_land_area < (total_panels + 1) * 104000
                /\ effective_land_area = 414000000 => total_panels = 3980
                /\ effective_land_area = 446200000 => total_panels = 4284
                /\ effective_land_area = 460000000 => total_panels = 4284
                /\ effective_land_area = 600000 => total_panels = 5
    /\ (ScenarioInputs /\ SummaryDone /\ selected_spacing = 800) =>
          /\ rows_possible_exact = 28
          /\ gcr_selected = <<1375>>
          /\ shading_selected = 2
          /\ yield_per_panel_exact = 1785960000
          /\ (user_defined_panels <= 0 /\ mounts_per_row = 5 /\ panels_per_mount = 10)
             => total_panels_exact = 1400
          /\ total_panels_exact = 4284 =>
                /\ total_energy_exact = [kwh |-> 3825526, rem |-> 640000]
                /\ system_capacity_kw = 235620
    /\ (pc = "done" /\ layout_land_length = 23000 /\ layout_land_width = 20000
          /\ layout_panel_width = 110 /\ layout_panel_gap = 20
          /\ layout_row_spacing = 800) =>
          /\ rows_possible_layout = 28 /\ panels_per_row_layout = 153
          /\ total_panels_layout = 4284

\* C7 as stated: the summary reports 4284 panels, yieldPerPanel 893.79 kWh and
\* about 3,828,700 kWh/year (within 0.1%)
C7_Original ==
    (ScenarioInputs /\ SummaryDone /\ selected_spacing = 800) =>
       /\ rows_possible_exact = 28
       /\ total_panels_exact = 4284
       /\ gcr_selected = <<1375>>
       /\ shading_selected = 2
       /\ yield_per_panel_exact = 1787580000
       /\ total_energy_exact.kwh >= 3828700 - 3829
       /\ total_energy_exact.kwh <= 3828700 + 3829

\* the scenario run to its end on 97% of the land, with 4284 panels in the
\* sweep row and a count of 4284 panels in the summary
C7_Witness ==
    /\ ScenarioInputs /\ pc = "done"
    /\ effective_land_area = 446200000
    /\ spacing_results[Len(spacing_results)].spacing = 800
    /\ spacing_results[Len(spacing_results)].total_panels = 4284
    /\ spacing = 800 /\ gross_panels = 4284
    /\ selected_spacing = 800 /\ total_panels_exact = 4284
    /\ total_energy_exact.kwh = 3825526
    /\ total_panels_layout = 4284

\* twice the total area of the triangles p makes with the edges of the ring
RECURSIVE FanArea2(_, _, _)
FanArea2(ring, p, k) ==
    IF k >= Len(ring) THEN 0
    ELSE Abs(Cross(ring[k], ring[k + 1], p)) + FanArea2(ring, p, k + 1)

\* p is in a convex polygon exactly when those triangles tile the polygon
PointInside(ring, p) == FanArea2(ring, p, 1) = Abs(SignedArea2(ring))

\* how often the ring goes round p, counted on the edges from k on that pass
\* over p: 1 for an edge that passes from right to left, -1 for one from left
\* to right
RECURSIVE WindingFrom(_, _, _)
WindingFrom(ring, p, k) ==
    IF k >= Len(ring) THEN 0
    ELSE LET a == ring[k]
             b == ring[k + 1]
             under == WSign(CrossW(a, b, p))
         IN (IF b[1] <= p[1] /\ p[1] < a[1] /\ under > 0 THEN 1
             ELSE IF a[1] <= p[1] /\ p[1] < b[1] /\ under < 0 THEN -1
             ELSE 0)
            + WindingFrom(ring, p, k + 1)

\* p is a point of the polygon, whatever its shape: p lies between the ends
\* of an edge, or the ring goes round it
PointCovered(ring, p) ==
    \/ \E k \in 1..(Len(ring) - 1) :
          /\ WSign(CrossW(ring[k], ring[k + 1], p)) = 0
          /\ WSign(WAdd(WMul(WOf(ring[k][1] - p[1]), WOf(ring[k + 1][1] - p[1])),
                        WMul(WOf(ring[k][2] - p[2]), WOf(ring[k + 1][2] - p[2])))) <= 0
    \/ WindingFrom(ring, p, 1) # 0

\* some point a + t * (b - a), 0 <= t <= 1, has x1 < x < x2 and y1 < y < y2:
\* each of the four conditions is p * t < q, a bound on t from below when
\* p < 0 and from above when p > 0
EdgeThrough(a, b, x1, y1, x2, y2) ==
    LET dx == b[1] - a[1]
        dy == b[2] - a[2]
        conditions == {<<0 - dx, a[1] - x1>>, <<dx, x2 - a[1]>>,
                       <<0 - dy, a[2] - y1>>, <<dy, y2 - a[2]>>}
        lows == {c \in conditions : c[1] < 0}
        ups == {c \in conditions : c[1] > 0}
    IN /\ \A c \in conditions : c[1] = 0 => c[2] > 0
       /\ \A l \in lows : l[2] > l[1]
       /\ \A u \in ups : u[2] > 0
       /\ \A l \in lows : \A u \in ups :
             WLess(WMul(WOf(u[2]), WOf(l[1])), WMul(WOf(l[2]), WOf(u[1])))

\* the panel rectangle of the cell (r, c), <<x1, y1, x2, y2>> in the unit of the
\* usable polygon
CellBox(r, c) ==
    LET den == usable_polygon.den
        ring == usable_polygon.ring
        x == MinOf({ring[k][1] : k \in 1..Len(ring)})
             + c * (panel_width + panel_gap) * den
        y == MinOf({ring[k][2] : k \in 1..Len(ring)}) + r * row_spacing * den
    IN <<x, y, x + panel_width * den, y + panel_height * den>>

\* the four corners of the panel rectangle of the cell (r, c) are points of
\* the usable polygon
CornersInside(r, c) ==
    LET b == CellBox(r, c)
    IN \A x \in {b[1], b[3]} : \A y \in {b[2], b[4]} :
          PointCovered(usable_polygon.ring, <<x, y>>)

\* the panel rectangle of the cell (r, c) lies entirely inside the usable
\* polygon: its corners and its centre are points of the polygon, and no edge
\* of the ring passes through it
CellInside(r, c) ==
    LET b == CellBox(r, c)
        ring == usable_polygon.ring
        halves == [k \in 1..Len(ring) |-> <<2 * ring[k][1], 2 * ring[k][2]>>]
    IN /\ CornersInside(r, c)
       /\ PointCovered(halves, <<b[1] + b[3], b[2] + b[4]>>)
       /\ \A k \in 1..(Len(ring) - 1) :
             ~EdgeThrough(ring[k], ring[k + 1], b[1], b[2], b[3], b[4])

\* the cells the loops have been through: none before the first, then those
\* up to the cell (row, col) the loops are at
CellsVisited ==
    {cell \in (0..(possible_rows - 1)) \X (0..(panels_per_row - 1)) :
        /\ pc # "grid"
        /\ cell[1] < row \/ (cell[1] = row /\ cell[2] <= col)}

\* C8: in the polygon exact path the rows and the panels per row are the floors
\* of the bounding box's height over the row spacing and width over the pitch,
\* the cells are visited rows outer and columns inner, both ascending, and the
\* panel count is exactly the number of cells whose panel rectangle lies
\* entirely inside the usable polygon; nothing else is placed or counted.
C8_PolygonPlacement ==
    pc \in {"grid", "placing", "polygon_summary", "done"} =>
       LET den == usable_polygon.den
           xs == {usable_polygon.ring[k][1] : k \in 1..Len(usable_polygon.ring)}
           ys == {usable_polygon.ring[k][2] : k \in 1..Len(usable_polygon.ring)}
           pitch == (panel_width + panel_gap) * den
           inside == {cell \in CellsVisited : CellInside(cell[1], cell[2])}
       IN /\ IsFloor(possible_rows, MaxOf(ys) - MinOf(ys), row_spacing * den)
          /\ IsFloor(panels_per_row, MaxOf(xs) - MinOf(xs), pitch)
          /\ panel_count = Cardinality(inside)
          /\ Len(placed) = panel_count
          /\ \A k \in 1..Len(placed) :
                \E cell \in inside :
                   placed[k] = <<MinOf(xs) + cell[2] * pitch,
                                 MinOf(ys) + cell[1] * row_spacing * den>>
          /\ \A k \in 1..Len(placed) : \A l \in 1..Len(placed) :
                k < l => \/ placed[k][2] < placed[l][2]
                         \/ placed[k][2] = placed[l][2] /\ placed[k][1] < placed[l][1]
          /\ pc \in {"polygon_summary", "done"} =>
                /\ CellsVisited = (0..(possible_rows - 1)) \X (0..(panels_per_row - 1))
                /\ (possible_rows > 0 /\ panels_per_row > 0)
                      => (row = possible_rows - 1 /\ col = panels_per_row - 1)

\* a finished layout on the block with the slot, where some panels are placed
\* and a rectangle that has its four corners in the polygon but lies across
\* the slot is not
C8_Witness ==
    /\ pc = "done" /\ Len(usable_polygon.ring) = 9
    /\ panel_count > 0 /\ panel_count < total_panels_possible
    /\ \E cell \in CellsVisited :
          /\ CornersInside(cell[1], cell[2])
          /\ ~CellInside(cell[1], cell[2])
          /\ \A k \in 1..Len(placed) :
                placed[k] # <<CellBox(cell[1], cell[2])[1], CellBox(cell[1], cell[2])[2]>>
    /\ total_capacity = panel_count * panel_capacity_kw

\* the vertices of a ring
Vertices(ring) == {ring[k] : k \in 1..Len(ring)}

\* the polygon section has bound nothing past the polygon itself
NothingOnPolygon ==
    /\ usable_polygon = <<>> /\ effective_land_area_poly = 0
    /\ poly_warning = FALSE
    /\ possible_rows = 0 /\ total_panels_possible = 0
    /\ panel_count = 0 /\ placed = <<>>
    /\ estimated_energy_per_panel = 0 /\ total_capacity = 0
    /\ total_energy = spacing_results[Len(spacing_results)].total_energy

\* the polygon section has built its ring
PolygonBuilt ==
    pc \notin {"usable", "range", "fetch", "guard", "solar", "sweep", "summary",
               "layout", "polygon"}

\* two edges of the ring cross each other
CrossesItself(ring) ==
    \E j \in 1..(Len(ring) - 1) : \E k \in 1..(Len(ring) - 1) :
       /\ \/ Cross(ring[j], ring[j + 1], ring[k]) > 0
             /\ Cross(ring[j], ring[j + 1], ring[k + 1]) < 0
          \/ Cross(ring[j], ring[j + 1], ring[k]) < 0
             /\ Cross(ring[j], ring[j + 1], ring[k + 1]) > 0
       /\ \/ Cross(ring[k], ring[k + 1], ring[j]) > 0
             /\ Cross(ring[k], ring[k + 1], ring[j + 1]) < 0
          \/ Cross(ring[k], ring[k + 1], ring[j]) < 0
             /\ Cross(ring[k], ring[k + 1], ring[j + 1]) > 0

\* C11: a polygon with fewer than 3 distinct vertices, or one validate_polygon
\* refuses (fewer than 4 points or first point # last point), is reported as
\* invalid without raising, and no usable area, panel placement or energy is
\* computed on it.  The script closes every ring it builds and asks for at
\* least 3 points, so that validate_polygon, which it never calls, holds of
\* every ring that reaches the guard: what the guard refuses, it refuses for
\* the ring's shape, a ring of fewer than 3 distinct vertices among them, and
\* also a ring of no area and a ring that crosses itself.  A ring that passes
\* the guard has at least 3 distinct vertices and an area.
C11_InvalidPolygon ==
    /\ PolygonBuilt =>
          /\ validate_polygon(original_polygon)
          /\ original_polygon[Len(original_polygon)] = original_polygon[1]
          /\ Len(original_polygon) = Len(x_coords) /\ Len(x_coords) >= 4
    /\ (/\ PolygonBuilt /\ pc # "polygon_guard"
        /\ \/ Cardinality(Vertices(original_polygon)) < 3
           \/ ~validate_polygon(original_polygon)
           \/ SignedArea2(original_polygon) = 0
           \/ CrossesItself(original_polygon))
          => pc = "polygon_rejected"
    /\ pc = "polygon_rejected" => (NothingOnPolygon /\ ~ENABLED ProNext)
    /\ (PolygonBuilt /\ pc \notin {"polygon_guard", "polygon_rejected"}) =>
          /\ Cardinality(Vertices(original_polygon)) >= 3
          /\ SignedArea2(original_polygon) # 0
          /\ DOMAIN usable_polygon = {"den", "ring"}

\* three points entered, two of them distinct: the closed ring of 4 points,
\* which validate_polygon would let pass, was rejected
C11_Witness ==
    /\ pc = "polygon_rejected"
    /\ Len(original_polygon) = 4 /\ Cardinality(Vertices(original_polygon)) = 2
    /\ validate_polygon(original_polygon)
    /\ NothingOnPolygon

\* the usable area settings of the polygon section have run
UsablePolygonDone ==
    pc \in {"panel_layout", "grid", "placing", "polygon_summary", "done"}

\* the smaller side of the bounding box of the original polygon
SmallerSide ==
    LET xs == {original_polygon[k][1] : k \in 1..Len(original_polygon)}
        ys == {original_polygon[k][2] : k \in 1..Len(original_polygon)}
        w == MaxOf(xs) - MinOf(xs)
        h == MaxOf(ys) - MinOf(ys)
    IN IF w < h THEN w ELSE h

\* the search as it ran on the original polygon
SearchRun ==
    OffsetSearch(original_polygon, land_usage_percent_poly, Frac(0, 1),
                 Frac(SmallerSide, 2), Frac(0, 1), 0, 0)

\* the percentage was asked for and the usable polygon has been settled
PercentageSettled ==
    /\ pc \notin {"usable", "range", "fetch", "guard", "solar", "sweep", "summary",
                  "layout", "polygon", "polygon_guard", "polygon_rejected"}
    /\ use_percentage_poly

\* the 2 m wide band along the diagonal of a 14 x 9 m box, which is 1.2 m
\* across, and the block with the slot, whose arms are 4 m and whose spine is
\* 2 m across: the first midpoint, 2.25 m, leaves nothing of either
IsThin ==
    \/ original_polygon = << <<0, 0>>, <<512, 0>>, <<3584, 2304>>, <<3072, 2304>>,
                             <<0, 0>> >>
    \/ Len(original_polygon) = 9

\* C12 (as amended): an iteration of the offset search that meets an empty or
\* invalid shape does not end the search: it moves neither end of the
\* bracket, so that the search goes through all its 30 iterations and returns
\* the midpoint that emptied the polygon.  The erosion by the returned offset
\* is then empty, the usable polygon is the original polygon, the warning is
\* shown and the run goes on to the layout.  The fallback follows the erosion
\* by the returned offset alone: a search that met no empty shape has reached
\* the target within its budget, and its shrunk polygon is used with no
\* warning.
C12_ErosionFallback ==
    PercentageSettled =>
       LET run == SearchRun
           final == Buffer(original_polygon, offset)
       IN /\ offset = run.offset
          /\ run.converged \/ run.collapsed
          /\ IsThin => run.collapsed
          /\ run.collapsed =>
                /\ run.emptied >= 1 /\ run.steps = 30 /\ ~run.converged
                /\ run.emptied = 1 => offset = Frac(SmallerSide, 4)
                /\ final = Empty
                /\ usable_polygon = Shape(original_polygon)
                /\ poly_warning
          /\ ~run.collapsed =>
                /\ run.emptied = 0 /\ run.steps < 30
                /\ final # Empty /\ usable_polygon = final
                /\ usable_polygon # Shape(original_polygon)
                /\ ~poly_warning
          /\ UsablePolygonDone \/ pc = "raised"
          /\ pc = "panel_layout" => ENABLED PanelLayoutSetup

\* C12 as stated: when the search meets an empty or invalid shape at a step, or
\* misses the target in its 30 iterations, it stops at that step, the usable
\* polygon is the original polygon, the warning is shown and the run goes on
C12_Original ==
    PercentageSettled =>
       LET run == SearchRun
       IN (run.collapsed \/ ~run.converged) =>
             /\ run.collapsed => run.steps = run.emptied
             /\ usable_polygon = Shape(original_polygon)
             /\ poly_warning
             /\ UsablePolygonDone \/ pc = "raised"

\* the band along the diagonal: the first midpoint, 2.25 m, emptied it, the
\* search went on to its 30th iteration with the same midpoint, and the run
\* ended with the layout on the whole band
C12_Witness ==
    /\ pc = "done" /\ use_percentage_poly /\ poly_warning
    /\ original_polygon[3] = <<3584, 2304>>
    /\ SearchRun.emptied = 1 /\ SearchRun.steps = 30 /\ offset = Frac(576, 1)
    /\ usable_polygon = Shape(original_polygon)
    /\ total_capacity = panel_count * panel_capacity_kw

\* the 10 x 10 m square
IsSquare10 ==
    original_polygon = << <<0, 0>>, <<2560, 0>>, <<2560, 2560>>, <<0, 2560>>, <<0, 0>> >>

\* C13: on the 10 x 10 m square with a target of 90% the binary search over
\* the offset in [0, 5 m] stops within 30 iterations, and the usable polygon is
\* a shrunk polygon whose area is within 1% of 90 m^2 and which lies entirely
\* inside the square.
C13_SquareErosion ==
    (/\ UsablePolygonDone \/ pc = "raised"
     /\ IsSquare10 /\ use_percentage_poly /\ land_usage_percent_poly = 90)
       => LET ring == usable_polygon.ring
              xs == {ring[k][1] : k \in 1..Len(ring)}
              ys == {ring[k][2] : k \in 1..Len(ring)}
              area == (MaxOf(xs) - MinOf(xs)) * (MaxOf(ys) - MinOf(ys))
              run == SearchRun
          IN /\ run.steps <= 30 /\ run.converged
             /\ offset.num > 0 /\ 2 * offset.num <= 2560 * offset.den
             /\ ~poly_warning
             /\ usable_polygon.den = 1
             /\ Cardinality(xs) = 2 /\ Cardinality(ys) = 2
             /\ \A k \in 1..Len(ring) : PointInside(original_polygon, ring[k])
             /\ area < 100 * 256 * 256
             /\ 100 * Abs(area - 90 * 256 * 256) < 90 * 256 * 256

\* the search stopped at its sixth midpoint, 0.234375 m, and the layout was
\* made on the square from 0.234375 m to 9.765625 m
C13_Witness ==
    /\ pc = "done" /\ IsSquare10 /\ use_percentage_poly
    /\ land_usage_percent_poly = 90
    /\ SearchRun.steps = 6 /\ offset = Frac(60, 1)
    /\ usable_polygon.ring[1] = <<60, 60>> /\ usable_polygon.ring[3] = <<2500, 2500>>
    /\ panel_count > 0

\* the sum of x_k * y_(k+1) - x_(k+1) * y_k over the points from k on, the
\* point after the last being the first
RECURSIVE ShoelaceFrom(_, _)
ShoelaceFrom(points, k) ==
    IF k > Len(points) THEN 0
    ELSE LET next == IF k = Len(points) THEN 1 ELSE k + 1
         IN points[k][1] * points[next][2] - points[next][1] * points[k][2]
            + ShoelaceFrom(points, k + 1)

\* the points in the opposite order
Reversed(points) == [k \in 1..Len(points) |-> points[Len(points) + 1 - k]]

\* C14: polygon_area is 0.5 * |sum over the ring of x_i * y_(i+1) - x_(i+1) *
\* y_i| for every point sequence: 100 for the square (0,0), (10,0), (10,10),
\* (0,10), (0,0), 0 for fewer than 3 distinct vertices, and the same for the
\* ring in either orientation.
C14_ShoelaceArea ==
    pc = "helpers_done" =>
       /\ polygon_area_result = Abs(ShoelaceFrom(coords, 1))
       /\ coords = << <<0, 0>>, <<10, 0>>, <<10, 10>>, <<0, 10>>, <<0, 0>> >>
             => polygon_area_result = 2 * 100
       /\ Cardinality({coords[k] : k \in 1..Len(coords)}) < 3
             => polygon_area_result = 0
       /\ polygon_area(Reversed(coords)) = polygon_area_result

\* a clockwise triangle that does not start at the origin, of area 50 m^2
C14_Witness ==
    /\ pc = "helpers_done"
    /\ coords = << <<10, 10>>, <<10, 0>>, <<0, 0>>, <<10, 10>> >>
    /\ polygon_area_result = 2 * 50
    /\ validate_polygon_result

\* C15: in every row of the sweep, with usable area >= 0, spacing > 0 and
\* pitchX > 0, 0 <= totalPanels <= grossPanels and totalPanels * spacing *
\* pitchX <= usable area, and totalPanels never increases from one swept
\* spacing to the next larger one.
C15_SweepCounts ==
    LET pitch == panel_width + panel_gap
    IN /\ (SweepCountHeld /\ effective_land_area >= 0 /\ spacing > 0 /\ pitch > 0) =>
             /\ 0 <= total_panels /\ total_panels <= gross_panels
             /\ total_panels * spacing * pitch <= effective_land_area
       /\ (SweepRowDone /\ effective_land_area >= 0 /\ pitch > 0) =>
             /\ \A k \in 1..Len(spacing_results) :
                   /\ spacing_results[k].spacing > 0
                   /\ spacing_results[k].total_panels >= 0
                   /\ spacing_results[k].total_panels * spacing_results[k].spacing
                         * pitch <= effective_land_area
             /\ \A k \in 1..(Len(spacing_results) - 1) :
                   /\ spacing_results[k].spacing < spacing_results[k + 1].spacing
                   /\ spacing_results[k + 1].total_panels
                         <= spacing_results[k].total_panels

\* a finished sweep whose last row was scaled down to the usable area and
\* whose counts fell from the first row to the last
C15_Witness ==
    /\ pc = "summary" /\ Len(spacing_results) >= 2
    /\ 0 < total_panels /\ total_panels < gross_panels
    /\ spacing_results[Len(spacing_results)].total_panels = total_panels
    /\ spacing_results[Len(spacing_results)].total_panels
          < spacing_results[1].total_panels

\* C9: when the lookup fails the irradiance is None, the run stops at the guard
\* before any SpacingResult or summary value is computed, and an irradiance
\* that is a number is always the E_y the service returned.
C9_IrradianceUnavailable ==
    /\ (pc \notin {"usable", "range", "fetch"} /\ pvgis_response.kind # "ok") =>
          /\ irradiance = None
          /\ pc \in {"guard", "stopped"}
          /\ spacing_results = <<>> /\ i = 0
          /\ selected_spacing = 0 /\ system_capacity_kw = 0
          /\ total_energy_exact = [kwh |-> 0, rem |-> 0]
    /\ pc = "stopped" => (irradiance = None /\ ~ENABLED Next)
    /\ irradiance # None =>
          (pvgis_response.kind = "ok" /\ irradiance = <<pvgis_response.E_y>>)

\* the request timed out and the run stopped
C9_Witness ==
    pc = "stopped" /\ pvgis_response.kind = "timeout" /\ irradiance = None

\* C10: no shading loss, shadow length or energy is produced when the critical
\* solar angle 90 - latitude + 23.45 is <= 0 or >= 90
C10_DomainError ==
    (critical_solar_angle(lat) <= 0 \/ critical_solar_angle(lat) >= 9000) =>
       pc \notin {"sweep", "summary", "layout", "done", "raised"}

====
